---- MODULE Spec2Model ----
(***************************************************************************)
(* Model of the multi-file CSV import of relax-tools                       *)
(* (src/src/features/csv/importer.ts): the file-name router                *)
(* extractMonthFromFileName and the batch loop of importCsvQuick with its  *)
(* file selection, per-sheet row pointer, cleared flag and warning list;   *)
(* and of the other tools of the add-in: the encoding resolvers, the       *)
(* column normalisation, setConsumptionCategory, the feature registry and  *)
(* removeBlankRowsInSelection, each with a specification of its own.       *)
(*                                                                         *)
(* Strings are sequences of one-character strings, so that substring,      *)
(* parseInt and toString are computed and not assumed.                     *)
(***************************************************************************)
EXTENDS Integers, Sequences, FiniteSets, TLC

VARIABLES
    callArg,        \* argument of a direct call of extractMonthFromFileName
    callRet,        \* its return value (NotCalled before the call)
    pc,             \* position of importCsvQuick
    files,          \* the File[] the selection promise resolved with
    fileIdx,        \* index of the next file of the for-of loop
    sheetRowPtr,    \* Record<string, number>: sheet name -> row pointer
    sheetCleared,   \* Record<string, boolean>: sheet name -> cleared
    warnings,       \* string[] of warnings
    workbook,       \* sheet name -> rows of the worksheet
    excelLog,       \* the Excel.run batches issued so far, in order
    journal,        \* one entry per iteration of the loop: what it did
    result,         \* settlement of the promise importCsvQuick returns
    errorMessage,   \* message of the Error it rejects with
    fileInput,      \* the <input type=file>: in document.body? its FileList,
                    \* and the removeChild calls made for it
    dialogOpen,     \* the file dialog fileInput.click() opened is showing
    timeout,        \* the 30 s timer: "armed", "cleared" or "fired"
    selection,      \* state of the promise that waits for the selection
    uint8Array,     \* the bytes of a CSV file handed to an encoding resolver
    sjisThrows,     \* the import of encoding-japanese or its Convert throws
    decoded,        \* what the resolver did: returned text or thrown error
    parsedRow,      \* a row of parseResult.data: its cells, strings
    rowFileName,       \* file.name of the file the row is of
    writtenRow,     \* the row built from it for the worksheet
    typeCsv,        \* the rows of /type.csv: keyword and type
    activeSheet,    \* the active worksheet: used range, columns B and K
    categoryRun,    \* what setConsumptionCategory did
    features,       \* the feature registry: Feature[]
    registerCalls,  \* the arguments of the registerFeature calls so far
    listed,         \* what the last getFeaturesByCategory returned
    sheetRows,      \* the rows of a worksheet, in the columns of the selection
    selectedRange,  \* rowIndex and rowCount of the selected range
    removeRun,      \* what removeBlankRowsInSelection did
    autoRun,        \* the auto-run of App: "none", "pending" or "started"
    calls,          \* the calls of feature.execute so far, each with its pc
    excelOps,       \* the Excel.run batches of all calls, in order
    message,        \* the message state of App
    msgSeq,         \* number of messages shown so far
    timers          \* the pending dismiss timers

\* the file input, its dialog, its timer and the promise they settle
selectVars == <<fileInput, dialogOpen, timeout, selection>>

\* variables of the other tools
decodeVars == <<uint8Array, sjisThrows, decoded>>

normVars == <<parsedRow, rowFileName, writtenRow>>

categoryVars == <<typeCsv, activeSheet, categoryRun>>

registryVars == <<features, registerCalls, listed>>

blankVars == <<sheetRows, selectedRange, removeRun>>

otherVars == <<decodeVars, normVars, categoryVars, registryVars, blankVars>>

\* the task pane
appVars == <<autoRun, calls, excelOps, message, msgSeq, timers>>

\* the router and the detailed importCsvQuick, and the other tools
toolVars == <<callArg, callRet, pc, files, fileIdx, sheetRowPtr, sheetCleared,
              warnings, workbook, excelLog, journal, result, errorMessage,
              selectVars, otherVars>>

vars == <<toolVars, appVars>>

----------------------------------------------------------------------------
(* Strings                                                                 *)

Digits == <<"0", "1", "2", "3", "4", "5", "6", "7", "8", "9">>

IsDigit(c) == \E i \in 1..10 : Digits[i] = c

\* value of a decimal digit character
DigitVal(c) == (CHOOSE i \in 1..10 : Digits[i] = c) - 1

\* i flag of the regular expression: letters compare in lower case
ToLower(c) ==
    CASE c = "C" -> "c"
      [] c = "S" -> "s"
      [] c = "V" -> "v"
      [] OTHER -> c

\* String.prototype.substring(from, to) on 0-based indices, from <= to
Substring(s, from, to) ==
    LET t == IF to > Len(s) THEN Len(s) ELSE to
    IN  IF from >= t THEN << >> ELSE SubSeq(s, from + 1, t)

\* parseInt(s, 10) of a non-empty string of decimal digits
RECURSIVE ParseInt(_)
ParseInt(s) ==
    IF Len(s) = 0 THEN 0
    ELSE 10 * ParseInt(SubSeq(s, 1, Len(s) - 1)) + DigitVal(s[Len(s)])

\* Number.prototype.toString() of a non-negative integer
RECURSIVE NumToString(_)
NumToString(n) ==
    IF n < 10 THEN <<Digits[n + 1]>>
    ELSE NumToString(n \div 10) \o <<Digits[(n % 10) + 1]>>

\* the JavaScript value null, distinct from every string of characters
null == <<"null">>

----------------------------------------------------------------------------
(* extractMonthFromFileName                                                *)

DotCsv == <<".", "c", "s", "v">>

\* fileName.replace(/\.csv$/i, '')
StripCsvExt(fileName) ==
    LET n == Len(fileName)
    IN  IF /\ n >= 4
           /\ \A i \in 1..4 : ToLower(fileName[n - 4 + i]) = DotCsv[i]
        THEN SubSeq(fileName, 1, n - 4)
        ELSE fileName

Enavi == <<"e", "n", "a", "v", "i">>

\* nameWithoutExt.match(/^enavi(\d{6})\(/)
MatchesPattern(s) ==
    /\ Len(s) >= 12
    /\ SubSeq(s, 1, 5) = Enavi
    /\ \A i \in 6..11 : IsDigit(s[i])
    /\ s[12] = "("

\* A router that falls through to the YYMMDD layout when the YYYYMM month
\* is out of range.
extractMonthFallThrough(fileName) ==
    LET nameWithoutExt == StripCsvExt(fileName)
    IN  IF ~MatchesPattern(nameWithoutExt) THEN null
        ELSE
          LET digits == SubSeq(nameWithoutExt, 6, 11)
              first4Digits == ParseInt(Substring(digits, 0, 4))
              mA == ParseInt(Substring(digits, 4, 6))
              mB == ParseInt(Substring(digits, 2, 4))
          IN  IF first4Digits >= 2000 /\ mA >= 1 /\ mA <= 12
              THEN NumToString(mA)
              ELSE IF mB >= 1 /\ mB <= 12 THEN NumToString(mB) ELSE null

extractMonthFromFileName(fileName) ==
    LET nameWithoutExt == StripCsvExt(fileName)
    IN  IF ~MatchesPattern(nameWithoutExt) THEN null
        ELSE
          LET digits == SubSeq(nameWithoutExt, 6, 11)
              first4Digits == ParseInt(Substring(digits, 0, 4))
          IN  IF first4Digits >= 2000
              THEN LET monthNum == ParseInt(Substring(digits, 4, 6))
                   IN  IF monthNum >= 1 /\ monthNum <= 12
                       THEN NumToString(monthNum) ELSE null
              ELSE LET monthNum == ParseInt(Substring(digits, 2, 4))
                   IN  IF monthNum >= 1 /\ monthNum <= 12
                       THEN NumToString(monthNum) ELSE null

----------------------------------------------------------------------------
(* File names the router is called with                                    *)

PrefixSet == { Enavi,
               <<"E", "n", "a", "v", "i">>,
               <<"x">> \o Enavi,
               <<"n", "a", "v", "i">> }

YearPairSet  == { <<"0", "0">>, <<"1", "9">>, <<"2", "0">>, <<"2", "5">> }
MidPairSet   == { <<"0", "0">>, <<"0", "6">>, <<"1", "2">>, <<"1", "3">>,
                  <<"2", "5">>, <<"9", "9">> }
LastPairSet  == { <<"0", "0">>, <<"0", "6">>, <<"0", "7">>, <<"1", "2">>,
                  <<"1", "5">>, <<"3", "1">> }

AfterDigitsSet == { <<"(", "3", "0", "3", "4", ")">>,
                    <<"(">>,
                    << >>,
                    <<"7", "(", "1", ")">>,
                    <<"_", "(", "1", ")">> }

ExtSet == { DotCsv, <<".", "C", "S", "V">>, << >>, <<".", "t", "x", "t">> }

RouterNames ==
    { p \o y \o m \o l \o a \o e :
        p \in PrefixSet, y \in YearPairSet, m \in MidPairSet,
        l \in LastPairSet, a \in AfterDigitsSet, e \in ExtSet }

\* "enavi250615(3034).csv" and "enavi202506(3034).csv"
NameYYMMDD == Enavi \o <<"2", "5", "0", "6", "1", "5">>
                    \o <<"(", "3", "0", "3", "4", ")">> \o DotCsv
NameYYYYMM == Enavi \o <<"2", "0", "2", "5", "0", "6">>
                    \o <<"(", "3", "0", "3", "4", ")">> \o DotCsv

NotCalled == <<"not-called">>

----------------------------------------------------------------------------
(* The batch: files, workbook, warnings                                    *)

MAX_ROW == 200
StartRow == 4

\* bounds of the model
MaxFiles == 3
LastSheetRow == 203
\* number of Excel.run or read failures injected into one batch
MaxFaults == 1

NameOf(digits, account) ==
    Enavi \o digits \o <<"(">> \o account \o <<")">> \o DotCsv

\* "enavi202506(9999).csv", "enavi202507(3034).csv", "enavi202512(3034).csv"
NameJune2  == NameOf(<<"2", "0", "2", "5", "0", "6">>, <<"9", "9", "9", "9">>)
NameJuly   == NameOf(<<"2", "0", "2", "5", "0", "7">>, <<"3", "0", "3", "4">>)
NameDec    == NameOf(<<"2", "0", "2", "5", "1", "2">>, <<"3", "0", "3", "4">>)

\* names read by the loop, and names the loop skips before reading
ReadNames    == { NameYYYYMM, NameJune2, NameJuly }
SkippedNames == { NameYYMMDD, NameDec }

\* number of rows Papa.parse returns for a file (header row included):
\* empty, header only, 5 data rows, 196 data rows (rows 5..200 of an empty
\* region exactly), 197 data rows (one too many)
RowCounts == { 0, 1, 6, 197, 198 }

\* the files a batch is drawn from; a skipped file is never read
FileSet ==
    { [name |-> NameYYYYMM, rows |-> r] : r \in RowCounts }
    \cup { [name |-> NameJune2, rows |-> 197] }
    \cup { [name |-> NameJuly, rows |-> 6] }
    \cup { [name |-> n, rows |-> 6] : n \in SkippedNames }

\* a FileList of a file dialog: files of one folder, so distinct names
DistinctNames(b) ==
    \A i, j \in DOMAIN b : i # j => b[i].name # b[j].name

\* worksheets of the workbook: "6" and "7"
ExistingSheets == { <<"6">>, <<"7">> }

\* Column A of a worksheet row: what it holds (the rows are written whole,
\* A..L).  A marker row holds the name of file number file of the batch, a
\* data row the parsed row number row of that file.
Cell(kind, file, row) == <<kind, file, row>>
OrigCell  == Cell("orig", 0, 0)
BlankCell == Cell("blank", 0, 0)

\* obj[k] = v on a Record<string, T>
Put(f, k, v) == [x \in DOMAIN f \cup {k} |-> IF x = k THEN v ELSE f[x]]

\* !sheetCleared[month] is true for a missing key
IsCleared(cleared, k) == k \in DOMAIN cleared /\ cleared[k]

\* sheetRowPtr[month] || 4
RowPtrOf(ptr, k) == IF k \in DOMAIN ptr /\ ptr[k] # 0 THEN ptr[k] ELSE StartRow

\* One Excel.run batch, issued for file number file of the batch: op is
\* "exists", "clear" or "write", ok whether it returned; first..last are
\* the rows of the marker range, dataFirst..dataLast those of the data range
\* (dataLast < dataFirst when no data range is set).
LogEntry(op, sheet, file, ok, first, last, dataFirst, dataLast) ==
    [op |-> op, sheet |-> sheet, file |-> file, ok |-> ok,
     first |-> first, last |-> last,
     dataFirst |-> dataFirst, dataLast |-> dataLast]

\* a warning that does not say which file it is about
WarningUnnamed(name, text) == text

\* Warning texts (lines 165, 183, 223, 231, 266, 297); a warning is the
\* string "file <name>: <text>" as a sequence of pieces.
Warning(name, text) == <<"file[">> \o name \o <<"]: ">> \o text

TextNoMonth   == <<"month not extracted">>
TextNoSheet(month) == <<"sheet[">> \o month \o <<"] does not exist">>
TextEmpty     == <<"CSV file is empty">>
TextNoData    == <<"no data rows">>
TextTruncated == <<"rows beyond L200 were truncated">>
\* error.message of an error thrown while clearing, reading or writing
TextThrown(what) == <<"error: ", what>>

\* sheet.getRange('A4:L200') cleared of contents and fill
ClearRegion(sheet) ==
    [r \in DOMAIN sheet |->
        IF r >= StartRow /\ r <= MAX_ROW THEN BlankCell ELSE sheet[r]]

\* fileNameRange.values = [fileNameRow]; dataRange.values = actualDataRows
\* actualDataRows is a sequence of row numbers of the parsed table
WriteRows(sheet, idx, fileNameRowNum, actualDataRows) ==
    [r \in DOMAIN sheet |->
        IF r = fileNameRowNum THEN Cell("marker", idx, 0)
        ELSE IF r > fileNameRowNum /\ r <= fileNameRowNum + Len(actualDataRows)
             THEN Cell("data", idx, actualDataRows[r - fileNameRowNum])
             ELSE sheet[r]]

\* Array.prototype.slice(0, end); a negative end counts from the end
Slice0(a, end) ==
    LET e == IF end < 0 THEN (IF Len(a) + end < 0 THEN 0 ELSE Len(a) + end)
             ELSE (IF end > Len(a) THEN Len(a) ELSE end)
    IN  IF e = 0 THEN << >> ELSE SubSeq(a, 1, e)

\* Array.prototype.slice(1)
Slice1(a) == IF Len(a) <= 1 THEN << >> ELSE SubSeq(a, 2, Len(a))

\* parseResult.data: the rows of a file, each identified by its row number
ParsedRows(file) == [i \in 1..file.rows |-> i]

\* data rows with the header kept
DataRowsKeepHeader(rows) == rows

\* rows.length >= 2 ? rows.slice(1) : []
DataRowsOf(rows) == IF Len(rows) >= 2 THEN Slice1(rows) ELSE << >>

\* a clear before every file
NeedsClearAlways(cleared, month) == TRUE

\* if (!sheetCleared[month])
NeedsClear(cleared, month) == ~IsCleared(cleared, month)

\* a plan that never truncates
PlanNoTruncation(rowPtr, dataRowsNormalized) ==
    [fileNameRowNum |-> rowPtr,
     dataStartRow |-> rowPtr + 1,
     dataEndRow |-> rowPtr + Len(dataRowsNormalized),
     actualDataRows |-> dataRowsNormalized,
     truncated |-> FALSE]

\* lines 252-267: the rows a file is to occupy
Plan(rowPtr, dataRowsNormalized) ==
    LET fileNameRowNum == rowPtr
        dataStartRow == rowPtr + 1
        dataEndRow == dataStartRow + Len(dataRowsNormalized) - 1
        over == dataEndRow > MAX_ROW
        maxDataRows == MAX_ROW - dataStartRow + 1
    IN  [fileNameRowNum |-> fileNameRowNum,
         dataStartRow |-> dataStartRow,
         dataEndRow |-> dataEndRow,
         actualDataRows |->
             IF over THEN Slice0(dataRowsNormalized, maxDataRows)
             ELSE dataRowsNormalized,
         truncated |-> over]

\* a row pointer that follows the computed end row
NewRowPtrUncapped(plan) == plan.dataEndRow

\* a row pointer that restarts at the first row when the region is full
NewRowPtrWrap(plan) ==
    IF plan.truncated THEN StartRow
    ELSE plan.dataStartRow + Len(plan.actualDataRows) - 1

\* line 291: truncated ? MAX_ROW : dataStartRow + actualDataRows.length - 1
NewRowPtr(plan) ==
    IF plan.truncated THEN MAX_ROW
    ELSE plan.dataStartRow + Len(plan.actualDataRows) - 1

\* the row pointer table when the write throws, had line 291-292 stood
\* before the write
RowPtrSetBeforeWrite(ptr, month, plan) == Put(ptr, month, NewRowPtr(plan))

\* lines 270-299: the row pointer table after the Excel.run of the write
\* has thrown; the assignment of lines 291-292 is skipped and the catch
\* block only adds a warning
RowPtrAfterThrow(ptr, month, plan) == ptr

\* What the iteration for file number idx did: outcome is the branch that
\* ended it, didClear whether it cleared the region, rowPtr the
\* row pointer it read (0 when it did not get that far), nData the number
\* of data rows of the file, nWritten the number of data rows written.
Entry(idx, outcome, month, didClear, rowPtr, nData, nWritten, truncated) ==
    [file |-> idx, outcome |-> outcome, month |-> month,
     didClear |-> didClear, rowPtr |-> rowPtr, nData |-> nData,
     nWritten |-> nWritten, truncated |-> truncated]

\* The state an iteration works on and leaves behind.
LoopState(ptr, cleared, warns, wb, log, entry) ==
    [ptr |-> ptr, cleared |-> cleared, warns |-> warns, wb |-> wb,
     log |-> log, entry |-> entry]

\* lines 206-299 of the loop body: the file is read, parsed, planned and
\* written; s is the state after the clear, didClear whether it cleared,
\* idx the position of the file in the batch
ReadAndWrite(idx, file, month, s, didClear, readOk, writeOk) ==
    LET rowPtr == RowPtrOf(s.ptr, month)
        rows == ParsedRows(file)
        dataRows == DataRowsOf(rows)
        plan == Plan(rowPtr, dataRows)
        warnsT == IF plan.truncated
                  THEN Append(s.warns, Warning(file.name, TextTruncated))
                  ELSE s.warns
        writeEntry(ok) ==
            LogEntry("write", month, idx, ok,
                     plan.fileNameRowNum, plan.fileNameRowNum,
                     plan.fileNameRowNum + 1,
                     plan.fileNameRowNum + Len(plan.actualDataRows))
        E(outcome, nData, nWritten, truncated) ==
            Entry(idx, outcome, month, didClear, rowPtr,
                  nData, nWritten, truncated)
    IN  IF ~readOk
        THEN LoopState(s.ptr, s.cleared,
                 Append(s.warns, Warning(file.name, TextThrown("read"))),
                 s.wb, s.log, E("readFailed", 0, 0, FALSE))
        ELSE IF Len(rows) = 0
        THEN LoopState(s.ptr, s.cleared,
                 Append(s.warns, Warning(file.name, TextEmpty)),
                 s.wb, s.log, E("empty", 0, 0, FALSE))
        ELSE IF Len(dataRows) = 0
        THEN LoopState(s.ptr, s.cleared,
                 Append(s.warns, Warning(file.name, TextNoData)),
                 s.wb, s.log, E("noData", 0, 0, FALSE))
        ELSE IF ~writeOk
        THEN LoopState(RowPtrAfterThrow(s.ptr, month, plan), s.cleared,
                 Append(warnsT, Warning(file.name, TextThrown("write"))),
                 s.wb, Append(s.log, writeEntry(FALSE)),
                 E("writeFailed", Len(dataRows), 0, plan.truncated))
        ELSE LoopState(Put(s.ptr, month, NewRowPtr(plan)), s.cleared, warnsT,
                 [s.wb EXCEPT ![month] =
                     WriteRows(@, idx, plan.fileNameRowNum,
                               plan.actualDataRows)],
                 Append(s.log, writeEntry(TRUE)),
                 E("written", Len(dataRows), Len(plan.actualDataRows),
                   plan.truncated))

\* lines 161-299: one iteration of the for-of loop with its try/catch.
\* syncOk, clearOk, readOk, writeOk: whether the existence check, the clear,
\* the read and parse, and the write return without throwing.
LoopBody(idx, file, s, syncOk, clearOk, readOk, writeOk) ==
    LET month == extractMonthFromFileName(file.name)
        sheetExists == month \in DOMAIN s.wb /\ syncOk
        logE == Append(s.log,
                    LogEntry("exists", month, idx, sheetExists, 0, 0, 0, 0))
        clearEntry(ok) ==
            LogEntry("clear", month, idx, ok, StartRow, MAX_ROW, 0, 0)
    IN  IF month = null \/ month = << >>
        THEN LoopState(s.ptr, s.cleared,
                 Append(s.warns, Warning(file.name, TextNoMonth)),
                 s.wb, s.log,
                 Entry(idx, "noMonth", month, FALSE, 0, 0, 0, FALSE))
        ELSE IF ~sheetExists
        THEN LoopState(s.ptr, s.cleared,
                 Append(s.warns, Warning(file.name, TextNoSheet(month))),
                 s.wb, logE,
                 Entry(idx, "noSheet", month, FALSE, 0, 0, 0, FALSE))
        ELSE IF NeedsClear(s.cleared, month)
        THEN IF ~clearOk
             THEN LoopState(s.ptr, s.cleared,
                      Append(s.warns, Warning(file.name, TextThrown("clear"))),
                      s.wb, Append(logE, clearEntry(FALSE)),
                      Entry(idx, "clearFailed", month, FALSE,
                            0, 0, 0, FALSE))
             ELSE ReadAndWrite(idx, file, month,
                      LoopState(Put(s.ptr, month, StartRow),
                                Put(s.cleared, month, TRUE),
                                s.warns,
                                [s.wb EXCEPT ![month] = ClearRegion(@)],
                                Append(logE, clearEntry(TRUE)),
                                s.entry),
                      TRUE, readOk, writeOk)
        ELSE ReadAndWrite(idx, file, month,
                 LoopState(s.ptr, s.cleared, s.warns, s.wb, logE, s.entry),
                 FALSE, readOk, writeOk)

\* a join that lists the warnings last to first
JoinReversed(ws) ==
    LET RECURSIVE J(_)
        J(i) == IF i = 0 THEN << >>
                ELSE IF i = 1 THEN ws[1]
                ELSE ws[i] \o <<"\n">> \o J(i - 1)
    IN  J(Len(ws))

\* warnings.join('\n')
Join(ws) ==
    LET RECURSIVE J(_)
        J(i) == IF i = 0 THEN << >>
                ELSE IF i = 1 THEN ws[1]
                ELSE J(i - 1) \o <<"\n">> \o ws[i]
    IN  J(Len(ws))

\* line 318: the message every rejection of importCsvQuick carries
Failed(errorText) == <<"CSV import failed: ">> \o errorText

\* line 307: the Error thrown for a non-empty warning list
WarningsError(ws) == <<"warnings:", "\n">> \o Join(ws)

\* line 303: warnings.length > 0
HasWarnings(ws) == Len(ws) > 0

\* a loop that a failed iteration ends (the try/catch around the loop)
LoopEndsOnFailure(idx, n, entry) ==
    idx >= n \/ entry.outcome # "written"

\* lines 160, 166, 184, 224, 232, 295-299: the for-of loop ends after the
\* last file only; continue and the catch inside the loop go on to the next
LoopEnds(idx, n, entry) == idx >= n

----------------------------------------------------------------------------
(* Actions of importCsvQuick                                               *)

Reject(errorText) ==
    /\ result' = "rejected"
    /\ errorMessage' = Failed(errorText)
    /\ pc' = "done"

\* a promise that every call of resolve or reject settles anew
SettleAgain(state, to) == to

\* resolve(...) and reject(...): the first call settles the promise, a call
\* on a settled promise does nothing
Settle(state, to) == IF state = "pending" THEN to ELSE state

\* a clearTimeout that leaves the timer running
ClearTimeoutNoop(t) == t

\* line 119: clearTimeout(timeout) stops the timer unless it has fired
ClearTimeout(t) == IF t = "armed" THEN "cleared" ELSE t

\* document.body.removeChild(fileInput): removals counts the calls,
\* detached records a call for an input that was not in document.body
RemoveChild(input) ==
    [input EXCEPT !.inBody = FALSE, !.removals = @ + 1,
                  !.detached = @ \/ ~input.inBody]

\* lines 120-122: removeChild under the test document.body.contains
RemoveIfContained(input) ==
    IF input.inBody THEN RemoveChild(input) ELSE input

\* lines 118-123: cleanup() clears the timer and takes the input out of
\* document.body when it is still there
Cleanup ==
    /\ timeout' = ClearTimeout(timeout)
    /\ fileInput' = RemoveIfContained(fileInput)

\* reject(new Error(...)) of the selection promise; the await of line 112
\* throws into the outer catch when this call settled the promise
RejectSelection(errorText) ==
    /\ selection' = Settle(selection, "rejected")
    /\ IF selection = "pending" /\ selection' = "rejected"
       THEN Reject(errorText)
       ELSE UNCHANGED <<pc, result, errorMessage>>

\* lines 142-149: the 100 ms timer calls fileInput.click(), which shows
\* the file dialog, or shows nothing when the browser refuses a dialog
\* that no user gesture asked for
Click ==
    /\ pc = "selecting"
    /\ pc' = "dialog"
    /\ dialogOpen' \in BOOLEAN
    /\ UNCHANGED <<callArg, callRet, files, fileIdx, sheetRowPtr,
                   sheetCleared, warnings, workbook, excelLog, journal,
                   result, errorMessage, fileInput, timeout, selection,
                   otherVars, appVars>>

\* lines 145-148: click() throws
ClickThrows ==
    /\ pc = "selecting"
    /\ Cleanup
    /\ RejectSelection(<<"could not open the file dialog">>)
    /\ UNCHANGED <<callArg, callRet, files, fileIdx, sheetRowPtr,
                   sheetCleared, warnings, workbook, excelLog, journal,
                   dialogOpen, otherVars, appVars>>

\* lines 113-116: the 30 s timer fires, long after the 100 ms timer of
\* the click; a dialog that is showing stays open
SelectionTimeout ==
    /\ timeout = "armed"
    /\ pc # "selecting"
    /\ timeout' = "fired"
    /\ fileInput' = RemoveChild(fileInput)
    /\ RejectSelection(<<"file selection timed out">>)
    /\ UNCHANGED <<callArg, callRet, files, fileIdx, sheetRowPtr,
                   sheetCleared, warnings, workbook, excelLog, journal,
                   dialogOpen, otherVars, appVars>>

\* lines 137-140: the cancel event of the dialog
OnCancel ==
    /\ dialogOpen
    /\ dialogOpen' = FALSE
    /\ Cleanup
    /\ RejectSelection(<<"file selection was cancelled">>)
    /\ UNCHANGED <<callArg, callRet, files, fileIdx, sheetRowPtr,
                   sheetCleared, warnings, workbook, excelLog, journal,
                   otherVars, appVars>>

\* lines 125-135: the change event with an empty FileList
OnChangeNoFiles ==
    /\ dialogOpen
    /\ dialogOpen' = FALSE
    /\ Cleanup
    /\ RejectSelection(<<"no file was selected">>)
    /\ UNCHANGED <<callArg, callRet, files, fileIdx, sheetRowPtr,
                   sheetCleared, warnings, workbook, excelLog, journal,
                   otherVars, appVars>>

\* lines 125-135, 152-157: the change event with files; when resolve(files)
\* settles the promise the loop starts with empty tables
OnChange ==
    /\ dialogOpen
    /\ dialogOpen' = FALSE
    /\ timeout' = ClearTimeout(timeout)
    /\ selection' = Settle(selection, "resolved")
    /\ \E n \in 1..MaxFiles :
         \E fs \in [1..n -> FileSet] :
             /\ DistinctNames(fs)
             /\ fileInput' = [RemoveIfContained(fileInput) EXCEPT !.files = fs]
             /\ IF selection # "resolved" /\ selection' = "resolved"
                THEN /\ files' = fs
                     /\ fileIdx' = 1
                     /\ sheetRowPtr' = << >>
                     /\ sheetCleared' = << >>
                     /\ warnings' = << >>
                     /\ pc' = "loop"
                ELSE UNCHANGED <<files, fileIdx, sheetRowPtr, sheetCleared,
                                 warnings, pc>>
    /\ UNCHANGED <<callArg, callRet, workbook, excelLog, journal,
                   result, errorMessage, otherVars, appVars>>

\* The call of an iteration that throws: the existence check, the clear,
\* the read and parse, the write, or none.  The first call that throws ends
\* the iteration, so one choice covers every combination.
FaultKinds == { "none", "sync", "clear", "read", "write" }

\* iterations so far that ended in a failure of Excel.run or of the read
Faults ==
    Cardinality({ i \in 1..Len(journal) :
        \/ journal[i].outcome \in {"clearFailed", "readFailed", "writeFailed"}
        \/ /\ journal[i].outcome = "noSheet"
           /\ journal[i].month \in DOMAIN workbook })

\* lines 160-319: one iteration of the loop; after the last one the
\* function resolves or rejects (lines 302-319)
ProcessFile ==
    /\ pc = "loop"
    /\ fileIdx <= Len(files)
    /\ \E fault \in FaultKinds :
         /\ Faults < MaxFaults \/ fault = "none"
         /\ \E s \in { LoopBody(fileIdx, files[fileIdx],
                                 LoopState(sheetRowPtr, sheetCleared, warnings,
                                           workbook, excelLog, << >>),
                                 fault # "sync", fault # "clear",
                                 fault # "read", fault # "write") } :
                /\ sheetRowPtr' = s.ptr
                /\ sheetCleared' = s.cleared
                /\ warnings' = s.warns
                /\ workbook' = s.wb
                /\ excelLog' = s.log
                /\ journal' = Append(journal, s.entry)
                /\ fileIdx' = fileIdx + 1
                /\ IF ~LoopEnds(fileIdx, Len(files), s.entry)
                   THEN UNCHANGED <<pc, result, errorMessage>>
                   ELSE /\ pc' = "done"
                        /\ IF HasWarnings(s.warns)
                           THEN /\ result' = "rejected"
                                /\ errorMessage' = Failed(WarningsError(s.warns))
                           ELSE /\ result' = "resolved"
                                /\ errorMessage' = << >>
    /\ UNCHANGED <<callArg, callRet, files, selectVars, otherVars, appVars>>

\* lines 103-109, 113: the input is created and appended to document.body,
\* the 30 s timer is set and the promise is pending
SelectInit ==
    /\ fileInput = [inBody |-> TRUE, files |-> << >>, removals |-> 0,
                    detached |-> FALSE]
    /\ dialogOpen = FALSE
    /\ timeout = "armed"
    /\ selection = "pending"

\* no call of an encoding resolver
NotDecoded ==
    [status |-> "none", by |-> "", text |-> << >>, encoding |-> "",
     message |-> << >>]

DecodeIdle ==
    /\ uint8Array = << >>
    /\ sjisThrows = FALSE
    /\ decoded = NotDecoded

\* no row built yet
NoRow == [kind |-> "none", cells |-> << >>]

NormIdle ==
    /\ parsedRow = << >>
    /\ rowFileName = << >>
    /\ writtenRow = NoRow

\* setConsumptionCategory not called
NotRun ==
    [status |-> "none", startRow |-> 0, endRow |-> 0, wrote |-> FALSE,
     kBefore |-> << >>]

CategoryIdle ==
    /\ typeCsv = << >>
    /\ activeSheet = [rowIndex |-> 0, rowCount |-> 1, B |-> << >>, K |-> << >>]
    /\ categoryRun = NotRun

\* the registry of a freshly loaded module
RegistryIdle ==
    /\ features = << >>
    /\ registerCalls = << >>
    /\ listed = << >>

\* removeBlankRowsInSelection not called
NotRemoved ==
    [status |-> "none", blankRowIndices |-> << >>, deleted |-> << >>,
     before |-> << >>]

BlankIdle ==
    /\ sheetRows = << >>
    /\ selectedRange = [rowIndex |-> 0, rowCount |-> 1]
    /\ removeRun = NotRemoved

\* message state null
NoMessage == [id |-> 0, type |-> "none", left |-> 0]

\* nothing of the task pane is running
AppIdle ==
    /\ autoRun = "none"
    /\ calls = << >>
    /\ excelOps = << >>
    /\ message = NoMessage
    /\ msgSeq = 0
    /\ timers = {}

Init ==
    /\ callArg = << >>
    /\ callRet = NotCalled
    /\ pc = "selecting"
    /\ files = << >>
    /\ fileIdx = 1
    /\ sheetRowPtr = << >>
    /\ sheetCleared = << >>
    /\ warnings = << >>
    /\ workbook = [k \in ExistingSheets |-> [r \in 1..LastSheetRow |-> OrigCell]]
    /\ excelLog = << >>
    /\ journal = << >>
    /\ result = "pending"
    /\ errorMessage = << >>
    /\ SelectInit
    /\ DecodeIdle
    /\ NormIdle
    /\ CategoryIdle
    /\ RegistryIdle
    /\ BlankIdle
    /\ AppIdle

Next ==
    \/ Click
    \/ ClickThrows
    \/ SelectionTimeout
    \/ OnCancel
    \/ OnChangeNoFiles
    \/ OnChange
    \/ ProcessFile

Spec == Init /\ [][Next]_vars

----------------------------------------------------------------------------
(* Direct calls of the router                                              *)

RouteInit ==
    /\ callArg \in RouterNames \cup {NameYYMMDD, NameYYYYMM}
    /\ callRet = NotCalled
    /\ pc = "done"
    /\ files = << >>
    /\ fileIdx = 1
    /\ sheetRowPtr = << >>
    /\ sheetCleared = << >>
    /\ warnings = << >>
    /\ workbook = [k \in ExistingSheets |-> [r \in 1..LastSheetRow |-> OrigCell]]
    /\ excelLog = << >>
    /\ journal = << >>
    /\ result = "pending"
    /\ errorMessage = << >>
    /\ SelectInit
    /\ DecodeIdle
    /\ NormIdle
    /\ CategoryIdle
    /\ RegistryIdle
    /\ BlankIdle
    /\ AppIdle

RouteCall ==
    /\ callRet = NotCalled
    /\ callRet' = extractMonthFromFileName(callArg)
    /\ UNCHANGED <<callArg, pc, files, fileIdx, sheetRowPtr, sheetCleared,
                   warnings, workbook, excelLog, journal, result, errorMessage,
                   selectVars, otherVars, appVars>>

RouteNext == RouteCall

RouteSpec == RouteInit /\ [][RouteNext]_vars

----------------------------------------------------------------------------
(* The encoding resolvers: readCsvFile of the multi-file import, the       *)
(* decoding of the single-file importCsvQuick and of importCsvFromRibbon.  *)
(* Bytes are integers 0..255, a text is a sequence of code points.         *)

MaxBytes == 4

\* "A", the bytes of the byte-order mark EF BB BF, the lead byte C3 of a
\* two-byte sequence and 82, a continuation byte and a Shift-JIS lead byte
ByteSet == { 65, 239, 187, 191, 195, 130 }

ByteStrings == UNION { [1..n -> ByteSet] : n \in 0..MaxBytes }

\* uint8Array.slice(3)
SliceFrom3(bytes) ==
    IF Len(bytes) <= 3 THEN << >> ELSE SubSeq(bytes, 4, Len(bytes))

\* uint8Array.length >= 3 && [0] === 0xEF && [1] === 0xBB && [2] === 0xBF
HasBOM(bytes) ==
    Len(bytes) >= 3 /\ bytes[1] = 239 /\ bytes[2] = 187 /\ bytes[3] = 191

\* UTF-8: the number of continuation bytes a lead byte asks for, -1 for a
\* byte that cannot start a sequence
Utf8Needed(b) ==
    IF b < 128 THEN 0
    ELSE IF b >= 194 /\ b <= 223 THEN 1
    ELSE IF b >= 224 /\ b <= 239 THEN 2
    ELSE IF b >= 240 /\ b <= 244 THEN 3
    ELSE -1

\* the range of the j-th byte after lead byte b
Utf8InRange(b, j, c) ==
    LET lo == IF j = 1 /\ b = 224 THEN 160
              ELSE IF j = 1 /\ b = 240 THEN 144 ELSE 128
        hi == IF j = 1 /\ b = 237 THEN 159
              ELSE IF j = 1 /\ b = 244 THEN 143 ELSE 191
    IN  c >= lo /\ c <= hi

\* the code points of a byte sequence, -1 standing for each decoding
\* error: a byte that cannot start a sequence, or a sequence cut short by
\* a byte out of range (which is then decoded again) or by the end
Utf8Units(bytes) ==
    LET RECURSIVE U(_)
        U(i) ==
            IF i > Len(bytes) THEN << >>
            ELSE LET b == bytes[i]
                     need == Utf8Needed(b)
                     good(j) == /\ i + j <= Len(bytes)
                                /\ Utf8InRange(b, j, bytes[i + j])
                     k == Cardinality({ j \in 1..3 :
                              j <= need /\ \A h \in 1..j : good(h) })
                     c(j) == bytes[i + j] - 128
                     point == IF need = 1 THEN (b - 192) * 64 + c(1)
                              ELSE IF need = 2
                              THEN (b - 224) * 4096 + c(1) * 64 + c(2)
                              ELSE (b - 240) * 262144 + c(1) * 4096
                                   + c(2) * 64 + c(3)
                 IN  IF need = 0 THEN <<b>> \o U(i + 1)
                     ELSE IF need = -1 THEN <<-1>> \o U(i + 1)
                     ELSE IF k = need THEN <<point>> \o U(i + need + 1)
                     ELSE <<-1>> \o U(i + k + 1)
    IN  U(1)

\* new TextDecoder('utf-8', { fatal }).decode(bytes): a leading U+FEFF is
\* dropped (ignoreBOM is false); an error throws when fatal and becomes
\* U+FFFD otherwise
TextDecoderDecode(bytes, fatal) ==
    LET u == Utf8Units(bytes)
        t == IF Len(u) > 0 /\ u[1] = 65279 THEN Tail(u) ELSE u
    IN  IF fatal /\ \E i \in 1..Len(u) : u[i] = -1
        THEN [ok |-> FALSE, text |-> << >>]
        ELSE [ok |-> TRUE,
              text |-> [i \in 1..Len(t) |-> IF t[i] = -1 THEN 65533 ELSE t[i]]]

\* Encoding.Convert(bytes, { from: 'SJIS', to: 'UNICODE' }): a byte below
\* 80 is itself, A1..DF a half-width katakana, a lead byte 81..9F or E0..FC
\* with its trail byte one character (numbered by its two bytes, the table
\* of the library is not modelled), any other byte "?"
SjisConvert(bytes) ==
    LET RECURSIVE S(_)
        S(i) ==
            IF i > Len(bytes) THEN << >>
            ELSE LET b == bytes[i]
                     lead == (b >= 129 /\ b <= 159) \/ (b >= 224 /\ b <= 252)
                     trail == /\ i < Len(bytes)
                              /\ bytes[i + 1] >= 64 /\ bytes[i + 1] <= 252
                              /\ bytes[i + 1] # 127
                 IN  IF b < 128 THEN <<b>> \o S(i + 1)
                     ELSE IF b >= 161 /\ b <= 223
                     THEN <<65377 + (b - 161)>> \o S(i + 1)
                     ELSE IF lead /\ trail
                     THEN <<65536 + 256 * b + bytes[i + 1]>> \o S(i + 2)
                     ELSE <<63>> \o S(i + 1)
    IN  S(1)

\* return { text, encoding } of resolver by
Returned(by, text, encoding) ==
    [status |-> "returned", by |-> by, text |-> text, encoding |-> encoding,
     message |-> << >>]

\* an Error thrown out of resolver by
Thrown(by, errorText) ==
    [status |-> "thrown", by |-> by, text |-> << >>, encoding |-> "",
     message |-> errorText]

\* String(sjisError): the error of the import or of Convert
SjisErrorText == <<"error of encoding-japanese">>

\* importer.ts lines 60-92: readCsvFile; the Shift-JIS branch is not in a
\* try, its error leaves the function as it is
readCsvFile(bytes, throws) ==
    IF HasBOM(bytes)
    THEN Returned("readCsvFile",
                  TextDecoderDecode(SliceFrom3(bytes), FALSE).text, "UTF-8")
    ELSE IF TextDecoderDecode(bytes, TRUE).ok
    THEN Returned("readCsvFile", TextDecoderDecode(bytes, TRUE).text, "UTF-8")
    ELSE IF throws
    THEN Thrown("readCsvFile", SjisErrorText)
    ELSE Returned("readCsvFile", SjisConvert(bytes), "SJIS")

\* importer.ts lines 401-448: the decoding of the single-file import
importCsvQuickDecode(bytes, throws) ==
    IF HasBOM(bytes)
    THEN Returned("importCsvQuick",
                  TextDecoderDecode(SliceFrom3(bytes), FALSE).text, "UTF-8")
    ELSE IF TextDecoderDecode(bytes, TRUE).ok
    THEN Returned("importCsvQuick",
                  TextDecoderDecode(bytes, TRUE).text, "UTF-8")
    ELSE IF throws
    THEN Thrown("importCsvQuick",
                <<"encoding detection failed: ">> \o SjisErrorText)
    ELSE Returned("importCsvQuick", SjisConvert(bytes), "SJIS")

\* csv-import.js lines 85-127: the decoding of importCsvFromRibbon; when
\* the Shift-JIS decoding throws the bytes are decoded as UTF-8, not fatal
importCsvFromRibbonDecode(bytes, throws) ==
    IF HasBOM(bytes)
    THEN Returned("importCsvFromRibbon",
                  TextDecoderDecode(SliceFrom3(bytes), FALSE).text, "UTF-8")
    ELSE IF TextDecoderDecode(bytes, TRUE).ok
    THEN Returned("importCsvFromRibbon",
                  TextDecoderDecode(bytes, TRUE).text, "UTF-8")
    ELSE IF throws
    THEN Returned("importCsvFromRibbon",
                  TextDecoderDecode(bytes, FALSE).text, "UTF-8 (forced)")
    ELSE Returned("importCsvFromRibbon", SjisConvert(bytes), "SJIS")

\* importCsvQuick is not running and holds no workbook
ImportIdle ==
    /\ pc = "done"
    /\ files = << >>
    /\ fileIdx = 1
    /\ sheetRowPtr = << >>
    /\ sheetCleared = << >>
    /\ warnings = << >>
    /\ workbook = << >>
    /\ excelLog = << >>
    /\ journal = << >>
    /\ result = "pending"
    /\ errorMessage = << >>
    /\ SelectInit

RouteIdle ==
    /\ callArg = << >>
    /\ callRet = NotCalled

DecodeInit ==
    /\ uint8Array \in ByteStrings
    /\ sjisThrows \in BOOLEAN
    /\ decoded = NotDecoded
    /\ RouteIdle
    /\ ImportIdle
    /\ NormIdle
    /\ CategoryIdle
    /\ RegistryIdle
    /\ BlankIdle
    /\ AppIdle

\* the multi-file import reads a file (importer.ts line 207)
ReadCsvFile ==
    /\ decoded.status = "none"
    /\ decoded' = readCsvFile(uint8Array, sjisThrows)
    /\ UNCHANGED <<callArg, callRet, pc, files, fileIdx, sheetRowPtr,
                   sheetCleared, warnings, workbook, excelLog, journal,
                   result, errorMessage, selectVars, uint8Array, sjisThrows,
                   normVars, categoryVars, registryVars, blankVars, appVars>>

\* the single-file import decodes the selected file
ImportCsvQuickDecode ==
    /\ decoded.status = "none"
    /\ decoded' = importCsvQuickDecode(uint8Array, sjisThrows)
    /\ UNCHANGED <<callArg, callRet, pc, files, fileIdx, sheetRowPtr,
                   sheetCleared, warnings, workbook, excelLog, journal,
                   result, errorMessage, selectVars, uint8Array, sjisThrows,
                   normVars, categoryVars, registryVars, blankVars, appVars>>

\* the ribbon import decodes the selected file
ImportCsvFromRibbonDecode ==
    /\ decoded.status = "none"
    /\ decoded' = importCsvFromRibbonDecode(uint8Array, sjisThrows)
    /\ UNCHANGED <<callArg, callRet, pc, files, fileIdx, sheetRowPtr,
                   sheetCleared, warnings, workbook, excelLog, journal,
                   result, errorMessage, selectVars, uint8Array, sjisThrows,
                   normVars, categoryVars, registryVars, blankVars, appVars>>

DecodeNext ==
    \/ ReadCsvFile
    \/ ImportCsvQuickDecode
    \/ ImportCsvFromRibbonDecode

DecodeSpec == DecodeInit /\ [][DecodeNext]_vars

----------------------------------------------------------------------------
(* Column normalisation of the multi-file import (importer.ts 235-250).   *)
(* A cell is a string, a sequence of characters; '' is << >>.              *)

MAX_COLS == 12

MaxRowLen == 14

\* the cell of column i of a parsed row: the number i as text
CellText(i) == NumToString(i)

\* parsed rows of every length up to MaxRowLen, with at most one empty cell
ParsedRowSet ==
    { [i \in 1..k |-> IF i = e THEN << >> ELSE CellText(i)] :
        k \in 0..MaxRowLen, e \in 0..MaxRowLen }

\* v || '' on a string
OrEmpty(v) == IF v = << >> THEN << >> ELSE v

\* a normalisation that keeps the cells past column 12
NormalizeRowNoCap(row) ==
    [i \in 1..(IF Len(row) > MAX_COLS THEN Len(row) ELSE MAX_COLS) |->
        IF i <= Len(row) THEN OrEmpty(row[i]) ELSE << >>]

\* lines 237-244: for i in 0..MAX_COLS-1,
\* normalized.push(i < row.length ? (row[i] || '') : '')
NormalizeRow(row) ==
    [i \in 1..MAX_COLS |-> IF i <= Len(row) THEN OrEmpty(row[i]) ELSE << >>]

\* lines 247-250: [file.name] followed by '' up to MAX_COLS cells
FileNameRow(name) ==
    [i \in 1..MAX_COLS |-> IF i = 1 THEN name ELSE << >>]

NormInit ==
    /\ parsedRow \in ParsedRowSet
    /\ rowFileName \in { NameYYYYMM, NameJuly }
    /\ writtenRow = NoRow
    /\ RouteIdle
    /\ ImportIdle
    /\ DecodeIdle
    /\ CategoryIdle
    /\ RegistryIdle
    /\ BlankIdle
    /\ AppIdle

\* lines 236-244: a data row is normalised
NormalizeDataRow ==
    /\ writtenRow.kind = "none"
    /\ writtenRow' = [kind |-> "data", cells |-> NormalizeRow(parsedRow)]
    /\ UNCHANGED <<callArg, callRet, pc, files, fileIdx, sheetRowPtr,
                   sheetCleared, warnings, workbook, excelLog, journal,
                   result, errorMessage, selectVars, decodeVars,
                   parsedRow, rowFileName, categoryVars, registryVars, blankVars, appVars>>

\* lines 247-250: the file-name row is built
BuildFileNameRow ==
    /\ writtenRow.kind = "none"
    /\ writtenRow' = [kind |-> "marker", cells |-> FileNameRow(rowFileName)]
    /\ UNCHANGED <<callArg, callRet, pc, files, fileIdx, sheetRowPtr,
                   sheetCleared, warnings, workbook, excelLog, journal,
                   result, errorMessage, selectVars, decodeVars,
                   parsedRow, rowFileName, categoryVars, registryVars, blankVars, appVars>>

NormNext ==
    \/ NormalizeDataRow
    \/ BuildFileNameRow

NormSpec == NormInit /\ [][NormNext]_vars

----------------------------------------------------------------------------
(* setConsumptionCategory (src/src/features/sheet/category-auto-set.ts):   *)
(* the keyword map of /type.csv and columns B and K of the active sheet.   *)
(* The used range is rows rowIndex + 1 .. rowIndex + rowCount counted from *)
(* 1 (rowIndex counts from 0); B and K hold the cells from row 4 on.       *)

MaxPairs == 2

MaxUsedRow == 6

\* first row the tool handles (line 71)
CategoryStartRow == 4

\* String.prototype.trim() for blanks
Trim(str) ==
    LET n == Len(str)
        kept == { i \in 1..n : str[i] # " " }
        lo == CHOOSE i \in kept : \A j \in kept : i <= j
        hi == CHOOSE i \in kept : \A j \in kept : i >= j
    IN  IF kept = {} THEN << >> ELSE SubSeq(str, lo, hi)

\* String.prototype.includes(keyword)
Includes(str, keyword) ==
    \E i \in 0..(Len(str) - Len(keyword)) :
        SubSeq(str, i + 1, i + Len(keyword)) = keyword

\* rows of /type.csv as Papa.parse gives them with header: true
TypeRows ==
    { [keyword |-> <<"a">>, type |-> <<"X">>],
      [keyword |-> <<"a", "b">>, type |-> <<"Y">>],
      [keyword |-> <<" ", "b">>, type |-> <<"Y", " ">>],
      [keyword |-> <<"a">>, type |-> <<"Z">>],
      [keyword |-> << >>, type |-> <<"X">>] }

TypeCsvSet == UNION { [1..n -> TypeRows] : n \in 1..MaxPairs }

\* consumptionMap.set(keyword, type): a Map keeps the place of a key it has
MapSet(map, keyword, type) ==
    IF \E i \in 1..Len(map) : map[i].keyword = keyword
    THEN [i \in 1..Len(map) |->
            IF map[i].keyword = keyword
            THEN [keyword |-> keyword, type |-> type] ELSE map[i]]
    ELSE Append(map, [keyword |-> keyword, type |-> type])

\* lines 32-38: the Map built from the rows, in insertion order
loadConsumptionMap(csv) ==
    LET RECURSIVE L(_)
        L(n) ==
            IF n = 0 THEN << >>
            ELSE IF csv[n].keyword # << >> /\ csv[n].type # << >>
            THEN MapSet(L(n - 1), Trim(csv[n].keyword), Trim(csv[n].type))
            ELSE L(n - 1)
    IN  L(Len(csv))

\* String(bValues[i][0] || '').trim()
BText(cell) == Trim(IF cell = null THEN << >> ELSE cell)

\* a match taken from the last entry of the map that matches
LastMatch(map, bValue) ==
    LET RECURSIVE F(_)
        F(i) == IF i = 0 THEN null
                ELSE IF Includes(bValue, map[i].keyword) THEN map[i].type
                ELSE F(i - 1)
    IN  F(Len(map))

\* lines 107-114: the type of the first entry whose keyword bValue
\* includes, null when there is none
FirstMatch(map, bValue) ==
    LET RECURSIVE F(_)
        F(i) == IF i > Len(map) THEN null
                ELSE IF Includes(bValue, map[i].keyword) THEN map[i].type
                ELSE F(i + 1)
    IN  F(1)

\* values of a cell of column B
BValues == { null, << >>, <<"a", "b">>, <<" ", "b", " ">> }

\* value of the cell of column K in row r before the run
KOld(r) == IF r % 2 = 0 THEN <<"o", "l", "d">> ELSE null

\* line 72: usedRange.rowIndex + usedRange.rowCount - 1
EndRowOf(sheet) == sheet.rowIndex + sheet.rowCount - 1

\* lines 96-122: newKValues for the rows startRow..endRow
NewKValues(map, sheet, startRow, endRow) ==
    [r \in startRow..endRow |->
        IF BText(sheet.B[r]) = << >> THEN sheet.K[r]
        ELSE IF FirstMatch(map, BText(sheet.B[r])) # null
        THEN FirstMatch(map, BText(sheet.B[r]))
        ELSE sheet.K[r]]

\* line 94, 111, 125: matchedCount > 0
MatchedAny(map, sheet, startRow, endRow) ==
    \E r \in startRow..endRow :
        /\ BText(sheet.B[r]) # << >>
        /\ FirstMatch(map, BText(sheet.B[r])) # null

CategoryInit ==
    /\ typeCsv \in TypeCsvSet
    /\ \E rowIndex \in {0, 3} :
         \E last \in 4..MaxUsedRow :
            \E b \in [CategoryStartRow..last -> BValues] :
                activeSheet = [rowIndex |-> rowIndex,
                               rowCount |-> last - rowIndex,
                               B |-> b,
                               K |-> [r \in CategoryStartRow..last |-> KOld(r)]]
    /\ categoryRun = NotRun
    /\ RouteIdle
    /\ ImportIdle
    /\ DecodeIdle
    /\ NormIdle
    /\ RegistryIdle
    /\ BlankIdle
    /\ AppIdle

\* lines 52-138: one call of setConsumptionCategory
SetConsumptionCategory ==
    /\ categoryRun.status = "none"
    /\ LET map == loadConsumptionMap(typeCsv)
           startRow == CategoryStartRow
           endRow == EndRowOf(activeSheet)
           run(status, wrote) ==
               [status |-> status, startRow |-> startRow, endRow |-> endRow,
                wrote |-> wrote, kBefore |-> activeSheet.K]
       IN  IF Len(map) = 0
           THEN /\ categoryRun' = [NotRun EXCEPT !.status = "thrown"]
                /\ UNCHANGED activeSheet
           ELSE IF endRow < startRow
           THEN /\ categoryRun' = run("done", FALSE)
                /\ UNCHANGED activeSheet
           ELSE IF MatchedAny(map, activeSheet, startRow, endRow)
           THEN /\ categoryRun' = run("done", TRUE)
                /\ activeSheet' =
                     [activeSheet EXCEPT !.K =
                        [r \in DOMAIN activeSheet.K |->
                           IF r >= startRow /\ r <= endRow
                           THEN NewKValues(map, activeSheet,
                                           startRow, endRow)[r]
                           ELSE activeSheet.K[r]]]
           ELSE /\ categoryRun' = run("done", FALSE)
                /\ UNCHANGED activeSheet
    /\ UNCHANGED <<callArg, callRet, pc, files, fileIdx, sheetRowPtr,
                   sheetCleared, warnings, workbook, excelLog, journal,
                   result, errorMessage, selectVars, decodeVars, normVars,
                   typeCsv, registryVars, blankVars, appVars>>

CategoryNext == SetConsumptionCategory

CategorySpec == CategoryInit /\ [][CategoryNext]_vars

----------------------------------------------------------------------------
(* The feature registry (feature-registry, src/unnamed/part_000 1-74)      *)

MaxCalls == 3

\* the Feature objects handed to registerFeature: id, name and category
FeatureSet ==
    [id : {"removeBlankRows", "importCsv"},
     name : {"n1", "n2"},
     category : {"sheet", "csv"}]

\* features.findIndex(f => f.id === feature.id), counted from 1; 0 for -1
FindIndex(fs, id) ==
    IF \E i \in 1..Len(fs) : fs[i].id = id
    THEN CHOOSE i \in 1..Len(fs) :
            fs[i].id = id /\ \A j \in 1..(i - 1) : fs[j].id # id
    ELSE 0

\* lines 31-41: an entry with the id is replaced, a new id is pushed
registerFeature(fs, feature) ==
    IF FindIndex(fs, feature.id) >= 1
    THEN [fs EXCEPT ![FindIndex(fs, feature.id)] = feature]
    ELSE Append(fs, feature)

\* lines 47-67: per category, the features in registry order, an id once
getFeaturesByCategory(fs) ==
    LET seenBefore(i) == \E j \in 1..(i - 1) : fs[j].id = fs[i].id
        RECURSIVE OfCategory(_, _)
        OfCategory(c, n) ==
            IF n = 0 THEN << >>
            ELSE IF fs[n].category = c /\ ~seenBefore(n)
            THEN Append(OfCategory(c, n - 1), fs[n])
            ELSE OfCategory(c, n - 1)
    IN  [c \in {"sheet", "text", "search", "csv"} |-> OfCategory(c, Len(fs))]

RegistryInit ==
    /\ RegistryIdle
    /\ RouteIdle
    /\ ImportIdle
    /\ DecodeIdle
    /\ NormIdle
    /\ CategoryIdle
    /\ BlankIdle
    /\ AppIdle

\* a call registerFeature(feature)
RegisterFeature ==
    /\ Len(registerCalls) < MaxCalls
    /\ \E feature \in FeatureSet :
         /\ features' = registerFeature(features, feature)
         /\ registerCalls' = Append(registerCalls, feature)
    /\ UNCHANGED <<callArg, callRet, pc, files, fileIdx, sheetRowPtr,
                   sheetCleared, warnings, workbook, excelLog, journal,
                   result, errorMessage, selectVars, decodeVars, normVars,
                   categoryVars, listed, blankVars, appVars>>

\* a call getFeaturesByCategory()
GetFeaturesByCategory ==
    /\ listed' = getFeaturesByCategory(features)
    /\ UNCHANGED <<callArg, callRet, pc, files, fileIdx, sheetRowPtr,
                   sheetCleared, warnings, workbook, excelLog, journal,
                   result, errorMessage, selectVars, decodeVars, normVars,
                   categoryVars, features, registerCalls, blankVars, appVars>>

RegistryNext ==
    \/ RegisterFeature
    \/ GetFeaturesByCategory

RegistrySpec == RegistryInit /\ [][RegistryNext]_vars

----------------------------------------------------------------------------
(* removeBlankRowsInSelection (category-auto-set.ts 148-209).  sheetRows   *)
(* holds, for the columns of the selection, the rows of the sheet from its *)
(* first row on; below them the sheet is empty.  Row indexes count from 0. *)

MaxSheetRows == 5

\* columns of the selection
ColCount == 2

\* a cell with a value, that of row r and column c before the run
ValueCell(r, c) == <<"v", r, c>>

\* an empty cell as range.values gives it
EmptyCell == << >>

\* a row of the sheet below the rows that hold anything
EmptyRow == [c \in 1..ColCount |-> EmptyCell]

\* row r of the sheet, of one of three kinds: all cells blank (null and
\* ''), only the last cell with a value, every cell with a value
RowOfKind(r, kind) ==
    IF kind = 1 THEN <<null, EmptyCell>>
    ELSE IF kind = 2 THEN <<EmptyCell, ValueCell(r, 2)>>
    ELSE <<ValueCell(r, 1), ValueCell(r, 2)>>

SheetRowsSet ==
    UNION { { [r \in 1..n |-> RowOfKind(r, kinds[r])] :
                kinds \in [1..n -> 1..3] } :
            n \in 1..MaxSheetRows }

\* line 177: row.every(cell => cell === null || cell === '' || ...)
IsEmptyRow(row) ==
    \A c \in 1..Len(row) : row[c] = null \/ row[c] = EmptyCell

\* lines 173-181: the indexes, relative to the range, of its blank rows,
\* in ascending order
BlankRowIndices(values) ==
    LET RECURSIVE B(_)
        B(n) == IF n = 0 THEN << >>
                ELSE IF IsEmptyRow(values[n]) THEN Append(B(n - 1), n - 1)
                ELSE B(n - 1)
    IN  B(Len(values))

\* rowRange.delete(Excel.DeleteShiftDirection.up) on the row with index
\* idx: the rows below move up and an empty row comes in from below
DeleteShiftUp(rows, idx) ==
    [r \in 1..Len(rows) |->
        IF r < idx + 1 THEN rows[r]
        ELSE IF r < Len(rows) THEN rows[r + 1]
        ELSE EmptyRow]

\* deletes queued from the top row down
DeleteOrderTopDown(blankRowIndices) == blankRowIndices

\* lines 194-200: for (i = length - 1; i >= 0; i--), bottom to top
DeleteOrder(blankRowIndices) ==
    [i \in 1..Len(blankRowIndices) |->
        blankRowIndices[Len(blankRowIndices) + 1 - i]]

\* line 202: context.sync() runs the queued deletes in order; gives the
\* rows after them and the row each delete removed
RunDeletes(rows, startRow, order) ==
    LET RECURSIVE R(_)
        R(n) == IF n = 0 THEN [rows |-> rows, deleted |-> << >>]
                ELSE LET p == R(n - 1)
                         idx == startRow + order[n]
                     IN  [rows |-> DeleteShiftUp(p.rows, idx),
                          deleted |-> Append(p.deleted, p.rows[idx + 1])]
    IN  R(Len(order))

BlankInit ==
    /\ sheetRows \in SheetRowsSet
    /\ \E rowIndex \in 0..(MaxSheetRows - 1) :
         \E rowCount \in 1..MaxSheetRows :
            /\ rowIndex + rowCount <= Len(sheetRows)
            /\ selectedRange = [rowIndex |-> rowIndex, rowCount |-> rowCount]
    /\ removeRun = NotRemoved
    /\ RouteIdle
    /\ ImportIdle
    /\ DecodeIdle
    /\ NormIdle
    /\ CategoryIdle
    /\ RegistryIdle
    /\ AppIdle

\* lines 152-203: one call of removeBlankRowsInSelection
RemoveBlankRowsInSelection ==
    /\ removeRun.status = "none"
    /\ LET startRow == selectedRange.rowIndex
           values == SubSeq(sheetRows, startRow + 1,
                            startRow + selectedRange.rowCount)
           blankRowIndices == BlankRowIndices(values)
           done == RunDeletes(sheetRows, startRow,
                              DeleteOrder(blankRowIndices))
       IN  IF Len(blankRowIndices) = 0
           THEN /\ removeRun' = [status |-> "done",
                                 blankRowIndices |-> blankRowIndices,
                                 deleted |-> << >>, before |-> sheetRows]
                /\ UNCHANGED sheetRows
           ELSE /\ removeRun' = [status |-> "done",
                                 blankRowIndices |-> blankRowIndices,
                                 deleted |-> done.deleted,
                                 before |-> sheetRows]
                /\ sheetRows' = done.rows
    /\ UNCHANGED <<callArg, callRet, pc, files, fileIdx, sheetRowPtr,
                   sheetCleared, warnings, workbook, excelLog, journal,
                   result, errorMessage, selectVars, decodeVars, normVars,
                   categoryVars, registryVars, selectedRange, appVars>>

BlankNext == RemoveBlankRowsInSelection

BlankSpec == BlankInit /\ [][BlankNext]_vars

----------------------------------------------------------------------------
(* The task pane (App.tsx): the auto-run of the action=importCsv URL       *)
(* parameter, handleFeatureClick, the message and its dismiss timers.      *)
(* calls holds one entry per call of feature.execute; a call of            *)
(* importCsvQuick is followed through its awaits: the file selection and   *)
(* then, file by file, the Excel.run batches of the loop.  Time is counted *)
(* in seconds: a timer holds the seconds left until it fires, a message    *)
(* the seconds left of its own duration.                                   *)

\* calls of feature.execute, the auto-run included
MaxRuns == 2
\* files of one selection
MaxBatch == 1

\* seconds after which the success and the error message are dismissed
SuccessSecs == 3
ErrorSecs == 5

\* ids of the registered features the model follows
CsvImport == "csv-import"
FeatureIds == { CsvImport, "remove-blank-rows" }

\* the selections of a file dialog, each file given by the sheet its name
\* routes to
Selections ==
    UNION { [1..n -> ExistingSheets] : n \in 1..MaxBatch }

\* a call of feature.execute that has just started; by is "auto" for the
\* auto-run and "click" for handleFeatureClick
NewCall(feature, by) ==
    [feature |-> feature, by |-> by,
     pc |-> IF feature = CsvImport THEN "selecting" ELSE "running",
     files |-> << >>, idx |-> 1, step |-> "exists", cleared |-> {}]

\* setMessage({ type, text }) followed by
\* setTimeout(() => setMessage(null), secs * 1000)
ShowMessage(type, secs) ==
    /\ msgSeq' = msgSeq + 1
    /\ message' = [id |-> msgSeq + 1, type |-> type, left |-> secs]
    /\ timers' = timers \cup { [forMsg |-> msgSeq + 1, left |-> secs] }

\* the continuation of the promise of call c, resolved (ok) or rejected:
\* lines 55-59 for the auto-run, lines 112-126 for a click
Settled(c, ok) ==
    IF ~ok
    THEN ShowMessage("error", ErrorSecs)
    ELSE IF calls[c].by = "click" /\ calls[c].feature = CsvImport
    THEN ShowMessage("success", SuccessSecs)
    ELSE UNCHANGED <<message, msgSeq, timers>>

\* a file dialog is showing: the page takes no clicks meanwhile
DialogShowing == \E c \in 1..Len(calls) : calls[c].pc = "dialog"

\* the calls made so far and the one the auto-run is about to make
Runs == Len(calls) + (IF autoRun = "pending" THEN 1 ELSE 0)

\* lines 54-55: the timer of the auto-run fires and calls importCsvQuick
AutoRun ==
    /\ autoRun = "pending"
    /\ autoRun' = "started"
    /\ calls' = Append(calls, NewCall(CsvImport, "auto"))
    /\ UNCHANGED <<excelOps, message, msgSeq, timers>>
    /\ UNCHANGED toolVars

\* lines 107-111: a click on the button of a feature; the message is
\* cleared and feature.execute is called
HandleFeatureClick ==
    /\ Runs < MaxRuns
    /\ ~DialogShowing
    /\ \E feature \in FeatureIds :
          calls' = Append(calls, NewCall(feature, "click"))
    /\ message' = NoMessage
    /\ UNCHANGED <<autoRun, excelOps, msgSeq, timers>>
    /\ UNCHANGED toolVars

\* importer.ts 145-147: fileInput.click() of call c opens the file dialog
OpenDialog ==
    /\ ~DialogShowing
    /\ \E c \in 1..Len(calls) :
          /\ calls[c].pc = "selecting"
          /\ calls' = [calls EXCEPT ![c].pc = "dialog"]
    /\ UNCHANGED <<autoRun, excelOps, message, msgSeq, timers>>
    /\ UNCHANGED toolVars

\* importer.ts 126-135: files are chosen in the dialog of call c, the
\* promise of the selection resolves and the loop starts
SelectFiles ==
    /\ \E c \in 1..Len(calls) :
          /\ calls[c].pc = "dialog"
          /\ \E fs \in Selections :
                calls' = [calls EXCEPT ![c].pc = "loop", ![c].files = fs]
    /\ UNCHANGED <<autoRun, excelOps, message, msgSeq, timers>>
    /\ UNCHANGED toolVars

\* importer.ts 113-116, 133-150, 315-319: the selection of call c is
\* cancelled, empty, times out or its click throws; importCsvQuick rejects
SelectionRejects ==
    /\ \E c \in 1..Len(calls) :
          /\ calls[c].pc \in {"selecting", "dialog"}
          /\ calls' = [calls EXCEPT ![c].pc = "done"]
          /\ Settled(c, FALSE)
    /\ UNCHANGED <<autoRun, excelOps>>
    /\ UNCHANGED toolVars

\* importer.ts 160-299: the next Excel.run of the loop of call c returns:
\* the existence check, the clear of a sheet this batch has not cleared,
\* or the write, which ends the iteration of the file
ExcelRun ==
    /\ \E c \in 1..Len(calls) :
          LET call == calls[c]
              sheet == call.files[call.idx]
              next == IF call.step = "exists" /\ sheet \notin call.cleared
                      THEN "clear" ELSE "write"
          IN  /\ call.pc = "loop"
              /\ call.idx <= Len(call.files)
              /\ excelOps' = Append(excelOps,
                     [call |-> c, op |-> call.step, sheet |-> sheet])
              /\ calls' = [calls EXCEPT ![c] =
                     IF call.step = "write"
                     THEN [call EXCEPT !.idx = @ + 1, !.step = "exists"]
                     ELSE [call EXCEPT !.step = next,
                             !.cleared = IF call.step = "clear"
                                         THEN @ \cup {sheet} ELSE @]]
    /\ UNCHANGED <<autoRun, message, msgSeq, timers>>
    /\ UNCHANGED toolVars

\* importer.ts 302-319: after the last file importCsvQuick resolves, or
\* rejects with the warnings
ImportSettles ==
    /\ \E c \in 1..Len(calls) :
          /\ calls[c].pc = "loop"
          /\ calls[c].idx > Len(calls[c].files)
          /\ calls' = [calls EXCEPT ![c].pc = "done"]
          /\ \E ok \in BOOLEAN : Settled(c, ok)
    /\ UNCHANGED <<autoRun, excelOps>>
    /\ UNCHANGED toolVars

\* line 111: the execute of another feature resolves or rejects
ExecuteSettles ==
    /\ \E c \in 1..Len(calls) :
          /\ calls[c].pc = "running"
          /\ calls' = [calls EXCEPT ![c].pc = "done"]
          /\ \E ok \in BOOLEAN : Settled(c, ok)
    /\ UNCHANGED <<autoRun, excelOps>>
    /\ UNCHANGED toolVars

\* lines 58, 118, 125: a dismiss timer fires: setMessage(null)
DismissTimer ==
    /\ \E t \in timers :
          /\ t.left = 0
          /\ timers' = timers \ {t}
    /\ message' = NoMessage
    /\ UNCHANGED <<autoRun, calls, excelOps, msgSeq>>
    /\ UNCHANGED toolVars

\* a second passes; the auto-run is due after 500 ms and a timer fires
\* when it is due
Tick ==
    /\ autoRun # "pending"
    /\ timers # {}
    /\ \A t \in timers : t.left > 0
    /\ timers' = { [t EXCEPT !.left = @ - 1] : t \in timers }
    /\ message' = IF message = NoMessage \/ message.left = 0 THEN message
                  ELSE [message EXCEPT !.left = @ - 1]
    /\ UNCHANGED <<autoRun, calls, excelOps, msgSeq>>
    /\ UNCHANGED toolVars

\* Office.onReady has run: with action=importCsv in the URL the auto-run
\* is scheduled (lines 49-61)
AppInit ==
    /\ autoRun \in {"none", "pending"}
    /\ calls = << >>
    /\ excelOps = << >>
    /\ message = NoMessage
    /\ msgSeq = 0
    /\ timers = {}
    /\ ImportIdle
    /\ RouteIdle
    /\ DecodeIdle
    /\ NormIdle
    /\ CategoryIdle
    /\ RegistryIdle
    /\ BlankIdle

AppNext ==
    \/ AutoRun
    \/ HandleFeatureClick
    \/ OpenDialog
    \/ SelectFiles
    \/ SelectionRejects
    \/ ExcelRun
    \/ ImportSettles
    \/ ExecuteSettles
    \/ DismissTimer
    \/ Tick

AppSpec == AppInit /\ [][AppNext]_vars

----------------------------------------------------------------------------
(* Claims about the router (checked under RouteSpec)                       *)

\* C1: extractMonthFromFileName("enavi250615(3034).csv") and
\* extractMonthFromFileName("enavi202506(3034).csv") both return month 6.
C1_TestVectorJune ==
    (callArg \in {NameYYMMDD, NameYYYYMM} /\ callRet # NotCalled)
        => callRet = <<"6">>

MonthStrings ==
    { <<"1">>, <<"2">>, <<"3">>, <<"4">>, <<"5">>, <<"6">>, <<"7">>, <<"8">>,
      <<"9">>, <<"1", "0">>, <<"1", "1">>, <<"1", "2">> }

\* the name has the form enavi + 6 digits + "("
HasEnaviForm(name) ==
    /\ Len(name) >= 12
    /\ \A i \in 1..5 : name[i] = Enavi[i]
    /\ \A i \in 6..11 : name[i] \in {"0", "1", "2", "3", "4", "5", "6", "7", "8", "9"}
    /\ name[12] = "("

\* the month the two layouts prescribe for a name of that form, 0 for none
LayoutMonth(name) ==
    LET d(i) == DigitVal(name[5 + i])
        first4 == 1000 * d(1) + 100 * d(2) + 10 * d(3) + d(4)
        m == IF first4 >= 2000 THEN 10 * d(5) + d(6) ELSE 10 * d(3) + d(4)
    IN  IF m >= 1 /\ m <= 12 THEN m ELSE 0

----------------------------------------------------------------------------
(* Claims about the batch (checked under Spec)                             *)

\* the iteration that has just ended, when there is one
HasLast == Len(journal) > 0
Last == journal[Len(journal)]

\* iteration i is the first of the batch whose file was routed to its sheet
FirstRouted(i) ==
    /\ journal[i].outcome \notin {"noMonth", "noSheet"}
    /\ \A j \in 1..(i - 1) :
          \/ journal[j].outcome \in {"noMonth", "noSheet"}
          \/ journal[j].month # journal[i].month

\* the warning names the file: it starts with "file[<name>]"
Mentions(w, name) ==
    /\ Len(w) >= Len(name) + 2
    /\ w[1] = "file["
    /\ \A c \in 1..Len(name) : w[1 + c] = name[c]
    /\ w[Len(name) + 2] = "]: "

WarningsFor(name) == { i \in 1..Len(warnings) : Mentions(warnings[i], name) }

IsTruncationWarning(w) == w[Len(w)] = "rows beyond L200 were truncated"

TruncationWarningsFor(name) ==
    { i \in WarningsFor(name) : IsTruncationWarning(warnings[i]) }

\* rows 4..200 of the sheet are as they were before the batch
RegionUntouched(sheet) ==
    \A r \in 4..200 : workbook[sheet][r] = <<"orig", 0, 0>>

ClearsOf(sheet) ==
    { i \in 1..Len(excelLog) :
        excelLog[i].op = "clear" /\ excelLog[i].sheet = sheet }

WritesOf(sheet) ==
    { i \in 1..Len(excelLog) :
        excelLog[i].op = "write" /\ excelLog[i].sheet = sheet }

\* C3: a file with zero data rows (empty, or header only) that is the first
\* file routed to its sheet records a warning, does not clear A4:L200 of the
\* sheet and leaves the sheet's row pointer and cleared flag unset.
C3_ZeroRowsLeavesKeyUnseen ==
    (HasLast /\ files[Last.file].rows <= 1 /\ FirstRouted(Len(journal))
       /\ Last.outcome \in {"empty", "noData"})
    => /\ WarningsFor(files[Last.file].name) # {}
       /\ RegionUntouched(Last.month)
       /\ ClearsOf(Last.month) = {}
       /\ Last.month \notin DOMAIN sheetRowPtr
       /\ ~IsCleared(sheetCleared, Last.month)

\* C4: no write of the import targets a row below 4 or above 200: marker
\* row and last data row are within 4..200, rows that would land past row
\* 200 are dropped, not written past the region, wrapped to its start or
\* turned into a thrown error.
C4_WritesWithinRegion ==
    /\ \A i \in 1..Len(excelLog) :
          excelLog[i].op = "write" =>
            /\ excelLog[i].first >= 4 /\ excelLog[i].last <= 200
            /\ excelLog[i].first = excelLog[i].last
            /\ excelLog[i].dataLast >= excelLog[i].dataFirst =>
                  /\ excelLog[i].dataFirst = excelLog[i].first + 1
                  /\ excelLog[i].dataLast <= 200
    /\ \A k \in DOMAIN workbook :
          \A r \in DOMAIN workbook[k] :
             (r < 4 \/ r > 200) => workbook[k][r] = <<"orig", 0, 0>>
    /\ \A i \in 1..Len(journal) :
          LET n == files[i].rows - 1
          IN  (journal[i].outcome \in {"written", "writeFailed"}
                 /\ journal[i].rowPtr + n > 200)
              => /\ journal[i].rowPtr <= 200
                 /\ journal[i].outcome = "written" =>
                       journal[i].nWritten = 200 - journal[i].rowPtr

\* a file whose rows did not all fit has been written up to row 200
C4_Witness ==
    /\ HasLast /\ Last.outcome = "written"
    /\ Last.rowPtr + files[Last.file].rows - 1 > 200
    /\ workbook[Last.month][200] = <<"data", Last.file, 200 - Last.rowPtr + 1>>

\* rows first..last of the sheet hold the parsed rows 2, 3, ... of file idx
HoldsLeadingData(sheet, idx, first, last) ==
    \A r \in first..last : workbook[sheet][r] = <<"data", idx, r - first + 2>>

\* C5: when row pointer + number of data rows of a file exceeds 200, the
\* leading data rows that fit are written, ending at row 200, one truncation
\* warning names the file and the row pointer of the sheet becomes 200;
\* when it does not exceed 200 no truncation warning is recorded.  (The
\* rows and the row pointer are those of a write that returned.)
C5_TruncationAtRow200 ==
    /\ \A i \in 1..Len(journal) :
          LET n == files[i].rows - 1
              name == files[i].name
          IN  journal[i].outcome \in {"written", "writeFailed"} =>
                IF journal[i].rowPtr + n > 200
                THEN Cardinality(TruncationWarningsFor(name)) = 1
                ELSE TruncationWarningsFor(name) = {}
    /\ (HasLast /\ Last.outcome = "written"
          /\ Last.rowPtr + files[Last.file].rows - 1 > 200)
       => /\ Last.nWritten = 200 - Last.rowPtr
          /\ HoldsLeadingData(Last.month, Last.file, Last.rowPtr + 1, 200)
          /\ workbook[Last.month][Last.rowPtr] = <<"marker", Last.file, 0>>
          /\ workbook[Last.month][201] = <<"orig", 0, 0>>
          /\ sheetRowPtr[Last.month] = 200

\* a second file of a sheet overflows: some of its rows fit, the rest is cut
C5_Witness ==
    /\ HasLast /\ Last.outcome = "written"
    /\ Last.rowPtr > 4 /\ Last.rowPtr < 200
    /\ Last.rowPtr + files[Last.file].rows - 1 > 200
    /\ sheetRowPtr[Last.month] = 200
    /\ Cardinality(TruncationWarningsFor(files[Last.file].name)) = 1

\* C6: the first file routed to a sheet, with a header row and n data rows,
\* 1 <= n <= 195: marker at row 4, the n data rows in order at rows 5..4+n
\* without the header, no truncation reported, row pointer 4+n.  (The rows
\* and the row pointer are those of a write that returned.)
C6_FirstFilePlacement ==
    /\ \A i \in 1..Len(excelLog) :
          LET e == excelLog[i]
              n == files[e.file].rows - 1
          IN  (e.op = "write" /\ FirstRouted(e.file) /\ n >= 1 /\ n <= 195)
              => /\ e.first = 4 /\ e.last = 4
                 /\ e.dataFirst = 5 /\ e.dataLast = 4 + n
                 /\ TruncationWarningsFor(files[e.file].name) = {}
    /\ LET n == files[Last.file].rows - 1
       IN  (HasLast /\ Last.outcome = "written" /\ FirstRouted(Len(journal))
              /\ n >= 1 /\ n <= 195)
           => /\ workbook[Last.month][4] = <<"marker", Last.file, 0>>
              /\ HoldsLeadingData(Last.month, Last.file, 5, 4 + n)
              /\ workbook[Last.month][5 + n] = <<"blank", 0, 0>>
              /\ ~Last.truncated
              /\ sheetRowPtr[Last.month] = 4 + n

\* header + 5 data rows on an unseen sheet: marker at 4, data at 5..9,
\* row pointer 9
C6_Witness ==
    /\ HasLast /\ Last.outcome = "written" /\ FirstRouted(Len(journal))
    /\ files[Last.file].rows = 6
    /\ workbook[Last.month][4] = <<"marker", Last.file, 0>>
    /\ workbook[Last.month][5] = <<"data", Last.file, 2>>
    /\ workbook[Last.month][9] = <<"data", Last.file, 6>>
    /\ sheetRowPtr[Last.month] = 9

\* C7: within a batch the row pointer of a sheet never decreases once set,
\* and a cleared flag that is true stays true.
C7_CursorMonotone ==
    [][ /\ \A k \in DOMAIN sheetRowPtr :
             k \in DOMAIN sheetRowPtr' /\ sheetRowPtr'[k] >= sheetRowPtr[k]
        /\ \A k \in DOMAIN sheetCleared :
             sheetCleared[k] => IsCleared(sheetCleared', k) ]_vars

\* a sheet whose row pointer has moved from 4 to 9 and on to 200
C7_Witness ==
    \E i, j \in 1..Len(journal) :
        /\ i < j
        /\ journal[i].month = journal[j].month
        /\ journal[i].outcome = "written" /\ journal[i].rowPtr = 4
        /\ journal[j].outcome = "written" /\ journal[j].rowPtr = 9
        /\ sheetRowPtr[journal[j].month] = 200
        /\ IsCleared(sheetCleared, journal[j].month)

\* C8: within a batch the region A4:L200 of a sheet is cleared with success
\* at most once, that clear precedes every write to the sheet, no clear
\* follows a write to it, and the clear sets the row pointer to 4.
C8_ClearOnceBeforeWrites ==
    /\ \A k \in DOMAIN workbook :
          /\ Cardinality({ c \in ClearsOf(k) : excelLog[c].ok }) <= 1
          /\ \A w \in WritesOf(k) :
                /\ \E c \in ClearsOf(k) : excelLog[c].ok /\ c < w
                /\ \A c \in ClearsOf(k) : c < w
    /\ \A i \in 1..Len(journal) : journal[i].didClear => journal[i].rowPtr = 4
    /\ (HasLast /\ Last.didClear /\ Last.outcome # "written")
       => /\ sheetRowPtr[Last.month] = 4
          /\ IsCleared(sheetCleared, Last.month)
          /\ \A r \in 4..200 : workbook[Last.month][r] = <<"blank", 0, 0>>

\* a sheet cleared once and then written by two files
C8_Witness ==
    \E k \in DOMAIN workbook :
        /\ Cardinality(ClearsOf(k)) = 1
        /\ Cardinality({ w \in WritesOf(k) : excelLog[w].ok }) = 2

\* C9: a failure while processing one file never aborts the batch: every
\* selected file is attempted exactly once, in selection order, and a file
\* that can be written is written whatever happened to the files before it;
\* the warnings name only the files that had a problem.
C9_BatchSurvivesFailures ==
    /\ Len(journal) = fileIdx - 1
    /\ \A i \in 1..Len(journal) : journal[i].file = i
    /\ (pc = "done" /\ Len(files) > 0) => Len(journal) = Len(files)
    /\ \A i \in 1..Len(journal) :
          LET e == journal[i]
              name == files[i].name
          IN  /\ (name \in ReadNames /\ files[i].rows >= 2
                    /\ e.outcome \notin {"noSheet", "clearFailed",
                                          "readFailed", "writeFailed"})
                 => /\ e.outcome = "written"
                    /\ \E w \in 1..Len(excelLog) :
                          /\ excelLog[w].op = "write" /\ excelLog[w].ok
                          /\ excelLog[w].file = i
              /\ (e.outcome = "written" /\ ~e.truncated)
                 => WarningsFor(name) = {}
              /\ e.outcome # "written" => Cardinality(WarningsFor(name)) >= 1

\* three files, the second fails routing: the first and the third are
\* written and the error mentions the second only
C9_Witness ==
    /\ pc = "done" /\ Len(files) = 3 /\ Len(journal) = 3
    /\ journal[1].outcome = "written"
    /\ journal[2].outcome = "noMonth"
    /\ journal[3].outcome = "written"
    /\ workbook[journal[3].month][journal[3].rowPtr] = <<"marker", 3, 0>>
    /\ Len(warnings) = 1 /\ Mentions(warnings[1], files[2].name)
    /\ result = "rejected"

\* the lines of a message: its pieces split at the "\n" pieces
LineBreaks(msg) == { i \in 1..Len(msg) : msg[i] = "\n" }

NumLines(msg) == Cardinality(LineBreaks(msg)) + 1

\* position of the k-th line break; 0 before the first line, Len + 1 after
\* the last
BreakAt(msg, k) ==
    IF k = 0 THEN 0
    ELSE IF k > Cardinality(LineBreaks(msg)) THEN Len(msg) + 1
    ELSE CHOOSE i \in LineBreaks(msg) :
             Cardinality({ j \in LineBreaks(msg) : j <= i }) = k

Line(msg, k) == SubSeq(msg, BreakAt(msg, k - 1) + 1, BreakAt(msg, k) - 1)

\* the file of the batch a warning names
FileOfWarning(w) == CHOOSE i \in 1..Len(files) : Mentions(w, files[i].name)

\* C10: after all files were attempted importCsvQuick rejects if and only
\* if the warning list is not empty; the message lists every warning, one
\* per line, in the order the files were processed; with no warning it
\* resolves.
C10_AggregateError ==
    (pc = "done" /\ Len(files) > 0) =>
        /\ result = "rejected" <=> Len(warnings) > 0
        /\ Len(warnings) = 0 => result = "resolved"
        /\ result = "rejected" =>
              /\ NumLines(errorMessage) = Len(warnings) + 1
              /\ \A i \in 1..Len(warnings) :
                    Line(errorMessage, i + 1) = warnings[i]
        /\ \A a, b \in 1..Len(warnings) :
              a < b => FileOfWarning(warnings[a]) <= FileOfWarning(warnings[b])

\* a rejected batch whose message has a line for each of two files
C10_Witness ==
    /\ pc = "done" /\ result = "rejected" /\ Len(warnings) = 2
    /\ FileOfWarning(warnings[1]) < FileOfWarning(warnings[2])
    /\ NumLines(errorMessage) = 3
    /\ Line(errorMessage, 3) = warnings[2]

\* the name gives no month, or a month the workbook has no worksheet for
Unroutable(name) ==
    \/ extractMonthFromFileName(name) = null
    \/ extractMonthFromFileName(name) \notin DOMAIN workbook

\* the Excel.run batches a step added to the log
NewBatches == { i \in 1..Len(excelLog') : i > Len(excelLog) }

\* C15: the iteration for a file whose name gives no month, or whose
\* month has no worksheet, adds exactly one warning, which names the file,
\* clears no region, writes nothing and leaves the row pointer and the
\* cleared flag of every sheet as they were.
C15_SkipLeavesNoTrace ==
    [][ (pc = "loop" /\ fileIdx <= Len(files)
           /\ Unroutable(files[fileIdx].name))
        => /\ Len(warnings') = Len(warnings) + 1
           /\ SubSeq(warnings', 1, Len(warnings)) = warnings
           /\ Mentions(warnings'[Len(warnings')], files[fileIdx].name)
           /\ \A i \in NewBatches : excelLog'[i].op = "exists"
           /\ workbook' = workbook
           /\ sheetRowPtr' = sheetRowPtr
           /\ sheetCleared' = sheetCleared ]_vars

\* a file for a month without worksheet was skipped after a file had been
\* written, whose sheet keeps its row pointer and flag
C15_Witness ==
    /\ Len(journal) = 2
    /\ journal[1].outcome = "written"
    /\ journal[2].outcome = "noSheet"
    /\ journal[2].month \notin DOMAIN workbook
    /\ Len(warnings) = 1
    /\ sheetRowPtr[journal[1].month] = 4 + journal[1].nWritten
    /\ IsCleared(sheetCleared, journal[1].month)

\* the iterations of the batch that wrote a file to the sheet
WrittenTo(sheet) ==
    { i \in 1..Len(journal) :
        journal[i].outcome = "written" /\ journal[i].month = sheet }

\* C20: within a batch the rows written for different files of one sheet
\* do not overlap: for files f before g written to the same sheet the
\* file-name row of g is below the last data row written for f, and the
\* rows of f still hold what was written for f.
C20_FilesDoNotOverlap ==
    \A k \in DOMAIN workbook :
       \A f, g \in WrittenTo(k) :
          f < g =>
            /\ journal[g].rowPtr > journal[f].rowPtr + journal[f].nWritten
            /\ \A n \in 1..journal[f].nWritten :
                  workbook[k][journal[f].rowPtr + n] = <<"data", f, n + 1>>

\* the iteration a step of the loop has just added ended because the
\* read and parse or the write threw
FileFailed ==
    /\ Len(journal') = Len(journal) + 1
    /\ journal'[Len(journal')].outcome \in {"readFailed", "writeFailed"}

\* the last iteration before the one being added that read the row
\* pointer of sheet k
LastFor(k) ==
    { i \in 1..Len(journal) :
        /\ journal[i].month = k /\ journal[i].rowPtr # 0
        /\ \A h \in (i + 1)..Len(journal) :
              journal[h].month # k \/ journal[h].rowPtr = 0 }

\* C21: a file whose read and parse or whose write fails leaves the row
\* pointer of every sheet as it was before the file (for a sheet seen for
\* the first time: at row 4, where the file started), and the next file
\* for the sheet of a failed file starts at the row the failed file
\* started at.
C21_FailureKeepsCursor ==
    [][ /\ FileFailed =>
             /\ \A k \in DOMAIN sheetRowPtr :
                   k \in DOMAIN sheetRowPtr' /\ sheetRowPtr'[k] = sheetRowPtr[k]
             /\ \A k \in DOMAIN sheetRowPtr' :
                   RowPtrOf(sheetRowPtr', k) = RowPtrOf(sheetRowPtr, k)
             /\ journal'[Len(journal')].rowPtr
                   = RowPtrOf(sheetRowPtr, journal'[Len(journal')].month)
        /\ Len(journal') = Len(journal) + 1 =>
             \A i \in LastFor(journal'[Len(journal')].month) :
                (journal[i].outcome \in {"readFailed", "writeFailed"}
                   /\ journal'[Len(journal')].rowPtr # 0)
                => journal'[Len(journal')].rowPtr = journal[i].rowPtr ]_vars

\* a file was written to rows 4..9 and the write of the next file for the
\* sheet threw: the row pointer is still 9
C21_Witness ==
    /\ Len(journal) = 2
    /\ journal[1].outcome = "written" /\ journal[1].rowPtr = 4
    /\ journal[2].outcome = "writeFailed" /\ journal[2].rowPtr = 9
    /\ journal[2].month = journal[1].month
    /\ sheetRowPtr[journal[2].month] = 9

----------------------------------------------------------------------------
(* Claims about the file selection (checked under Spec)                    *)

\* the wait for the selection ended in a failure
SelectionFailed == selection = "rejected" \/ timeout = "fired"

\* C11: when the file selection times out, is cancelled or yields no
\* files, importCsvQuick rejects and no file is processed: no existence
\* check, no clear and no write is issued, and the workbook is as before,
\* also when files are selected in the dialog after the timer has fired.
C11_SelectionFailureAborts ==
    SelectionFailed =>
        /\ result = "rejected"
        /\ files = << >>
        /\ excelLog = << >>
        /\ journal = << >>
        /\ \A k \in DOMAIN workbook : RegionUntouched(k)

\* the timer fired and afterwards two files were selected in the dialog
C11_Witness ==
    /\ timeout = "fired"
    /\ ~dialogOpen
    /\ Len(fileInput.files) = 2
    /\ selection = "rejected"
    /\ excelLog = << >>

\* the wait is over: the promise is settled, the timer is not running and
\* the input has been taken out of document.body by one removeChild
WaitOver ==
    /\ selection # "pending"
    /\ timeout # "armed"
    /\ ~fileInput.inBody
    /\ fileInput.removals = 1

\* the wait is on: nothing has been settled, stopped or removed
Waiting ==
    /\ selection = "pending"
    /\ timeout = "armed"
    /\ fileInput.inBody
    /\ fileInput.removals = 0
    /\ pc \in {"selecting", "dialog"}

\* C24: under every order of the change event, the cancel event, the
\* timeout and a click() that throws, the promise of the selection is
\* settled by the first of them and never changes afterwards, the first
\* of them stops or uses up the timer, and the input is removed from
\* document.body by exactly one removeChild, never called for an input
\* that is not in document.body.
C24_SettlesOnce ==
    [][ /\ selection # "pending" => selection' = selection
        /\ Waiting \/ WaitOver
        /\ Waiting' \/ WaitOver'
        /\ Waiting => (timeout' = "armed" <=> selection' = "pending")
        /\ ~fileInput.detached /\ ~fileInput'.detached
        /\ selection' = "resolved" => pc' \in {"loop", "done"}
        /\ (selection' = "rejected" /\ pc' = "done") => result' = "rejected"
      ]_vars

\* the timer fired with the dialog showing and one file was chosen
\* afterwards: the promise stays rejected and the input, removed by the
\* timer, is not removed again
C24_Witness ==
    /\ timeout = "fired"
    /\ selection = "rejected"
    /\ Len(fileInput.files) = 1
    /\ fileInput.removals = 1
    /\ ~fileInput.detached
    /\ ~dialogOpen

----------------------------------------------------------------------------
(* Claims about the encoding resolvers (checked under DecodeSpec)          *)

\* the bytes are well-formed UTF-8
ValidUtf8(bytes) == \A i \in 1..Len(Utf8Units(bytes)) : Utf8Units(bytes)[i] # -1

\* the error names a failure to detect the encoding
IsEncodingDetectionError(d) ==
    /\ d.status = "thrown"
    /\ Len(d.message) > 0
    /\ d.message[1] = "encoding detection failed: "

\* C12: in every entry point of the CSV import, when the bytes are not
\* valid UTF-8 and the Shift-JIS decoding fails too, the import ends with
\* an error that names an encoding-detection failure; it does not go on
\* with a text, so nothing is written.
C12_EncodingFailureIsTerminal ==
    (decoded.status # "none" /\ ~HasBOM(uint8Array)
       /\ ~ValidUtf8(uint8Array) /\ sjisThrows)
    => IsEncodingDetectionError(decoded)

\* C13: readCsvFile strips a leading EF BB BF and decodes the rest
\* strictly as UTF-8, reporting "UTF-8": a rest that is not valid UTF-8 is
\* not returned with substituted characters; without the mark, valid UTF-8
\* is returned as "UTF-8" and only invalid UTF-8 goes to Shift-JIS.
C13_BomThenStrictUtf8 ==
    decoded.by = "readCsvFile" =>
        IF HasBOM(uint8Array)
        THEN /\ decoded.status = "returned" =>
                   /\ decoded.encoding = "UTF-8"
                   /\ ValidUtf8(SliceFrom3(uint8Array))
                   /\ decoded.text
                        = TextDecoderDecode(SliceFrom3(uint8Array), TRUE).text
             /\ \A i \in 1..Len(decoded.text) : decoded.text[i] # 65533
        ELSE /\ ValidUtf8(uint8Array) =>
                   /\ decoded.status = "returned"
                   /\ decoded.encoding = "UTF-8"
                   /\ decoded.text = TextDecoderDecode(uint8Array, TRUE).text
             /\ decoded.encoding = "SJIS" => ~ValidUtf8(uint8Array)

----------------------------------------------------------------------------
(* Claims about the column normalisation (checked under NormSpec)          *)

\* C14: every row the multi-file import builds for the worksheet, the
\* file-name row and each data row, has exactly 12 cells; for a parsed row
\* of k cells the first min(k, 12) cells are the parsed ones in order, the
\* cells from k on are empty strings, and parsed cells from the 13th on
\* are dropped with no warning.
C14_TwelveCells ==
    writtenRow.kind # "none" =>
        /\ Len(writtenRow.cells) = 12
        /\ warnings = << >>
        /\ writtenRow.kind = "data" =>
              \A i \in 1..12 :
                 writtenRow.cells[i]
                   = IF i <= Len(parsedRow) THEN parsedRow[i] ELSE << >>
        /\ writtenRow.kind = "marker" =>
              /\ writtenRow.cells[1] = rowFileName
              /\ \A i \in 2..12 : writtenRow.cells[i] = << >>

\* a parsed row of 14 cells was cut to its first 12
C14_Witness ==
    /\ writtenRow.kind = "data"
    /\ Len(parsedRow) = 14
    /\ Len(writtenRow.cells) = 12
    /\ writtenRow.cells[12] = <<"1", "2">>

----------------------------------------------------------------------------
(* Claims about setConsumptionCategory (checked under CategorySpec)        *)

\* the last row of the used range, counted from 1
LastUsedRow == activeSheet.rowIndex + activeSheet.rowCount

\* the entries of the map whose keyword the text includes
Matching(map, text) ==
    { i \in 1..Len(map) : Includes(text, map[i].keyword) }

\* the type of the first of them
TypeOfFirst(map, text) ==
    map[CHOOSE i \in Matching(map, text) :
            \A j \in Matching(map, text) : i <= j].type

\* C16: setConsumptionCategory examines column B of every row from row 4
\* to the last used row of the active sheet, that row included: when B of
\* the last used row contains a keyword, K of that row is set to the
\* keyword's type.
C16_LastUsedRowExamined ==
    (categoryRun.status = "done" /\ LastUsedRow >= 4
       /\ BText(activeSheet.B[LastUsedRow]) # << >>
       /\ Matching(loadConsumptionMap(typeCsv),
                   BText(activeSheet.B[LastUsedRow])) # {})
    => activeSheet.K[LastUsedRow]
         = TypeOfFirst(loadConsumptionMap(typeCsv),
                       BText(activeSheet.B[LastUsedRow]))

\* the rows whose cells the run loaded and handled
ProcessedRows == categoryRun.startRow..categoryRun.endRow

\* row r has a B text that includes a keyword of the map
RowMatches(r) ==
    /\ BText(activeSheet.B[r]) # << >>
    /\ Matching(loadConsumptionMap(typeCsv), BText(activeSheet.B[r])) # {}

\* C17: for each row setConsumptionCategory processes, K becomes the type
\* of the first keyword, in the order of the keyword map, that the trimmed
\* B value includes; a row whose B value is empty or includes no keyword
\* keeps its K value; when no row matches nothing is written.
C17_FirstKeywordWins ==
    categoryRun.status = "done" =>
        /\ \A r \in DOMAIN activeSheet.K :
              IF r \in ProcessedRows /\ RowMatches(r)
              THEN activeSheet.K[r]
                     = TypeOfFirst(loadConsumptionMap(typeCsv),
                                   BText(activeSheet.B[r]))
              ELSE activeSheet.K[r] = categoryRun.kBefore[r]
        /\ categoryRun.wrote <=> \E r \in ProcessedRows : RowMatches(r)
        /\ ~categoryRun.wrote => activeSheet.K = categoryRun.kBefore

\* "ab" in B4 includes both keywords of the map a -> X, ab -> Y: K4 is X;
\* the row after it includes none and keeps its K value
C17_Witness ==
    /\ categoryRun.status = "done" /\ categoryRun.wrote
    /\ loadConsumptionMap(typeCsv)
         = << [keyword |-> <<"a">>, type |-> <<"X">>],
              [keyword |-> <<"a", "b">>, type |-> <<"Y">> ] >>
    /\ categoryRun.endRow = 5
    /\ activeSheet.B[4] = <<"a", "b">>
    /\ activeSheet.K[4] = <<"X">>
    /\ activeSheet.B[5] = <<" ", "b", " ">>
    /\ activeSheet.K[5] = null

----------------------------------------------------------------------------
(* Claims about the feature registry (checked under RegistrySpec)          *)

\* the first call of registerFeature with the id
FirstCallWith(id) ==
    registerCalls[CHOOSE c \in 1..Len(registerCalls) :
        /\ registerCalls[c].id = id
        /\ \A d \in 1..(c - 1) : registerCalls[d].id # id]

\* C18: registerFeature skips a feature whose id is registered already:
\* after f1 and then f2 with the same id the registry holds f1, so every
\* entry is the feature of the first call with its id, and no two entries
\* of the registry have the same id.
C18_DuplicateIdSkipped ==
    /\ \A i, j \in 1..Len(features) :
          i # j => features[i].id # features[j].id
    /\ \A i \in 1..Len(features) :
          features[i] = FirstCallWith(features[i].id)

----------------------------------------------------------------------------
(* Claims about removeBlankRowsInSelection (checked under BlankSpec)       *)

\* the cell holds nothing: null or the empty string
BlankCellValue(c) == c = <<"null">> \/ c = << >>

\* row r (counted from 1) of the sheet before the run is in the selection
\* and all its cells are blank
WasBlankSelected(r) ==
    /\ r > selectedRange.rowIndex
    /\ r <= selectedRange.rowIndex + selectedRange.rowCount
    /\ \A c \in 1..2 : BlankCellValue(removeRun.before[r][c])

\* the rows of the sheet before the run that are not such rows
KeptRows == { r \in 1..Len(removeRun.before) : ~WasBlankSelected(r) }

\* the number of kept rows up to row r
Rank(r) == Cardinality({ k \in KeptRows : k <= r })

\* C19: removeBlankRowsInSelection deletes exactly the rows of the
\* selection whose cells are all null or '': afterwards the columns of the
\* selection hold the other rows, unaltered, in their order and moved up
\* with no gap, and every queued delete removed a row classified blank.
C19_ExactlyBlankRowsRemoved ==
    removeRun.status = "done" =>
        /\ \A r \in KeptRows : sheetRows[Rank(r)] = removeRun.before[r]
        /\ \A p \in 1..Len(sheetRows) :
              p > Cardinality(KeptRows) =>
                 \A c \in 1..2 : sheetRows[p][c] = << >>
        /\ Len(removeRun.deleted)
             = Len(removeRun.before) - Cardinality(KeptRows)
        /\ \A d \in 1..Len(removeRun.deleted) :
              \A c \in 1..2 : BlankCellValue(removeRun.deleted[d][c])

\* two blank rows with a row between them were deleted from a selection
\* that starts in the second row; the row between moved up by one
C19_Witness ==
    /\ removeRun.status = "done"
    /\ selectedRange.rowIndex = 1
    /\ removeRun.blankRowIndices = <<0, 2>>
    /\ Len(removeRun.deleted) = 2
    /\ sheetRows[2] = removeRun.before[3]
    /\ sheetRows[2][2] = <<"v", 3, 2>>

----------------------------------------------------------------------------
(* Claims about the task pane (checked under AppSpec)                      *)

\* call c of importCsvQuick has its files and is in its loop
Importing(c) == calls[c].feature = CsvImport /\ calls[c].pc = "loop"

\* the clears and writes of the sheet, in the order they were issued
ChangesOf(sheet) ==
    { i \in 1..Len(excelOps) :
        excelOps[i].sheet = sheet /\ excelOps[i].op \in {"clear", "write"} }

\* C22: at most one import batch is in progress at any time, whether
\* started by the auto-run or by a click, and the clears and writes of two
\* batches never interleave on one sheet.
C22_OneBatchAtATime ==
    /\ Cardinality({ c \in 1..Len(calls) : Importing(c) }) <= 1
    /\ \A sheet \in ExistingSheets :
          \A i, j, k \in ChangesOf(sheet) :
             (i < j /\ j < k /\ excelOps[i].call = excelOps[k].call)
                => excelOps[j].call = excelOps[i].call

\* C23: a message is shown for its full duration (3 s success, 5 s
\* error) unless a newer message replaces it or a click clears it: a
\* dismiss timer never clears a message that has time left, so the timer
\* of an earlier message never clears a later one.
C23_TimerClearsOwnMessage ==
    [][ (message # NoMessage /\ message.left > 0 /\ message' = NoMessage)
           => Len(calls') > Len(calls) ]_vars

====
